---- MODULE Spec2Model ----
(***************************************************************************)
(* NFL RetroVault: the statistics aggregation and derived-metrics engine   *)
(* of the records view (career leaderboards, advanced metrics, record      *)
(* pace, single-season leaderboards, greatest seasons, season scoring).    *)
(*                                                                         *)
(* JavaScript numbers are modelled as exact rationals [n, d] with d > 0,   *)
(* kept in lowest terms; a division a / b with b # 0 is the rational a/b.  *)
(* Strings that the code takes apart character by character (player keys)  *)
(* are sequences of one-character strings; all other strings are strings.  *)
(***************************************************************************)
EXTENDS Integers, Sequences, FiniteSets, TLC

VARIABLES
    careerData,           \* useLeague().careerData: Null or the eight position collections
    history,              \* loadSeasonHistory(): ordered entries <<playerKey, snapshots>>
    allTimeRecords,       \* first useMemo of RecordsTab: records
    advancedMetrics,      \* first useMemo of RecordsTab: metrics
    paceToRecords,        \* first useMemo of RecordsTab: paceRecords
    singleSeasonRecords,  \* second useMemo of RecordsTab
    greatestSeasons,      \* third useMemo of RecordsTab
    call,                 \* the pending invocation of a pure function, or Null
    ret,                  \* the value that invocation returned, or Null
    seasonData,           \* useLeague().seasonData: Null or the uploaded season's collections
    dataVersion,          \* useLeague().dataVersion
    memoDeps,             \* the dependency values the three useMemo of RecordsTab last ran with
    recordsView,          \* useMemo of the six-section records view (RecordsTab.tsx)
    performances,         \* useMemo of SeasonTab: [allPerformances |-> the list]
    commentary            \* useMemo of CommentaryTab

\* the league context beside careerData, and the memos of the other tabs
league == <<seasonData, dataVersion, memoDeps>>
tabs == <<recordsView, performances, commentary>>

vars == <<careerData, history, allTimeRecords, advancedMetrics, paceToRecords,
          singleSeasonRecords, greatestSeasons, call, ret, league, tabs>>

\* JavaScript null / undefined result
Null == [null |-> TRUE]

\* the value of a memo that has not been computed yet
NotComputed == [pending |-> TRUE]

----------------------------------------------------------------------------
(* Numbers *)

Abs(x) == IF x < 0 THEN -x ELSE x

RECURSIVE GCD(_, _)
GCD(a, b) == IF b = 0 THEN a ELSE GCD(b, a % b)

\* the number n / d (d # 0), in lowest terms with a positive denominator
Rat(n, d) ==
    LET g == GCD(Abs(n), Abs(d))
        s == IF d < 0 THEN -1 ELSE 1
    IN  [n |-> s * (n \div g), d |-> s * (d \div g)]

Num(i) == [n |-> i, d |-> 1]
Zero == Num(0)

Add(a, b) == Rat(a.n * b.d + b.n * a.d, a.d * b.d)
Sub(a, b) == Rat(a.n * b.d - b.n * a.d, a.d * b.d)
Mul(a, b) == Rat(a.n * b.n, a.d * b.d)
Div(a, b) == Rat(a.n * b.d, a.d * b.n)

Lt(a, b)  == a.n * b.d < b.n * a.d
Leq(a, b) == a.n * b.d <= b.n * a.d
Gt(a, b)  == Lt(b, a)
Geq(a, b) == Leq(b, a)

\* Math.ceil of a rational, as an integer
Ceil(a) == -((-a.n) \div a.d)

----------------------------------------------------------------------------
(* Array.prototype helpers *)

\* Array.prototype.filter with the predicate given as the set of kept indices
RECURSIVE FilterIdx(_, _, _)
FilterIdx(s, keep, i) ==
    IF i > Len(s) THEN <<>>
    ELSE (IF i \in keep THEN <<s[i]>> ELSE <<>>) \o FilterIdx(s, keep, i + 1)

\* Array.prototype.slice(0, n)
Slice0(s, n) == IF n <= 0 THEN <<>> ELSE SubSeq(s, 1, IF n < Len(s) THEN n ELSE Len(s))

\* an insertion that puts x before the elements with an equal key
InsertDesc_beforeEqual(sorted, x) ==
    LET k == Cardinality({i \in 1..Len(sorted) : Gt(sorted[i].key, x.key)})
    IN  SubSeq(sorted, 1, k) \o <<x>> \o SubSeq(sorted, k + 1, Len(sorted))

\* insert x in a sequence sorted by descending key, after every element whose
\* key is >= x's (the sort is stable: equal keys keep their original order)
RECURSIVE InsertDesc(_, _)
InsertDesc(sorted, x) ==
    IF sorted = <<>> THEN <<x>>
    ELSE IF Geq(Head(sorted).key, x.key) THEN <<Head(sorted)>> \o InsertDesc(Tail(sorted), x)
    ELSE <<x>> \o sorted

\* the elements left in their original order
SortDesc_unsorted(s) == s

\* Array.prototype.sort((a, b) => key(b) - key(a)) on elements [key, item]
RECURSIVE SortDesc(_)
SortDesc(s) ==
    IF s = <<>> THEN <<>>
    ELSE InsertDesc(SortDesc(SubSeq(s, 1, Len(s) - 1)), s[Len(s)])

RECURSIVE InsertAsc(_, _)
InsertAsc(sorted, x) ==
    IF sorted = <<>> THEN <<x>>
    ELSE IF Leq(Head(sorted).key, x.key) THEN <<Head(sorted)>> \o InsertAsc(Tail(sorted), x)
    ELSE <<x>> \o sorted

\* Array.prototype.sort((a, b) => key(a) - key(b)) on elements [key, item]
RECURSIVE SortAsc(_)
SortAsc(s) ==
    IF s = <<>> THEN <<>>
    ELSE InsertAsc(SortAsc(SubSeq(s, 1, Len(s) - 1)), s[Len(s)])

----------------------------------------------------------------------------
(* Career players (types/player: Player, QBPlayer, RBPlayer, ...) *)

\* the fields every Player has
BasePlayer(name, position, status, games) ==
    [name |-> name, team |-> "T", position |-> position, status |-> status,
     games |-> games, rings |-> 0, mvp |-> 0, careerLegacy |-> 0, dominance |-> 0,
     sbmvp |-> 0, trueTalent |-> 0, tpg |-> 0]

QBPlayer(name, status, games, passYds, passTD, attempts, completions, interceptions) ==
    BasePlayer(name, "QB", status, games) @@
    [passYds |-> passYds, passTD |-> passTD, attempts |-> attempts,
     completions |-> completions, interceptions |-> interceptions,
     rushYds |-> 0, rushTD |-> 0]

RBPlayer(name, status, games, rushYds, rushAtt, recYds) ==
    BasePlayer(name, "RB", status, games) @@
    [rushYds |-> rushYds, rushTD |-> 0, rushAtt |-> rushAtt,
     recYds |-> recYds, recTD |-> 0, receptions |-> 0]

\* WRPlayer and TEPlayer carry the same receiving fields
WRPlayer(name, position, status, games, recYds, recTD, receptions) ==
    BasePlayer(name, position, status, games) @@
    [recYds |-> recYds, recTD |-> recTD, receptions |-> receptions, longest |-> 0]

\* LBPlayer, DBPlayer and DLPlayer carry the same defensive fields
DefPlayer(name, position, status, games, tackles, sacks, interceptions, forcedFumbles) ==
    BasePlayer(name, position, status, games) @@
    [tackles |-> tackles, sacks |-> sacks, interceptions |-> interceptions,
     forcedFumbles |-> forcedFumbles]

OLPlayer(name, status, games) == BasePlayer(name, "OL", status, games)

EmptyCareer ==
    [quarterbacks |-> <<>>, runningbacks |-> <<>>, widereceivers |-> <<>>,
     tightends |-> <<>>, offensiveline |-> <<>>, linebackers |-> <<>>,
     defensivebacks |-> <<>>, defensiveline |-> <<>>]

\* const allDef = [...linebackers, ...defensivebacks, ...defensiveline]
allDefOf(cd) == cd.linebackers \o cd.defensivebacks \o cd.defensiveline

\* const allPlayers = [...quarterbacks, ..., ...defensiveline]
allPlayersOf(cd) ==
    cd.quarterbacks \o cd.runningbacks \o cd.widereceivers \o cd.tightends \o
    cd.offensiveline \o cd.linebackers \o cd.defensivebacks \o cd.defensiveline

----------------------------------------------------------------------------
(* Value functions of the career leaderboards (the lambdas of `records`) *)

qbPassYdsValue(p)   == Num(p.passYds)
qbPassTDValue(p)    == Num(p.passTD)
\* qbYPA with the fallback of qbTDINT: the numerator when the denominator is 0
qbYPAValue_numeratorFallback(p) ==
    IF p.attempts > 0 THEN Rat(p.passYds, p.attempts) ELSE Num(p.passYds)
qbYPAValue(p)       == IF p.attempts > 0 THEN Rat(p.passYds, p.attempts) ELSE Zero
qbTDINTValue(p)     == IF p.interceptions > 0 THEN Rat(p.passTD, p.interceptions) ELSE Num(p.passTD)
qbTotalTDValue(p)   == Num(p.passTD + p.rushTD)
qbTotalYdsValue(p)  == Num(p.passYds + p.rushYds)
rbRushYdsValue(p)   == Num(p.rushYds)
rbRushTDValue(p)    == Num(p.rushTD)
rbYPCValue(p)       == IF p.rushAtt > 0 THEN Rat(p.rushYds, p.rushAtt) ELSE Zero
rbScrimmageValue(p) == Num(p.rushYds + p.recYds)
rbYPGValue(p)       == IF p.games > 0 THEN Rat(p.rushYds + p.recYds, p.games) ELSE Zero
wrRecYdsValue(p)    == Num(p.recYds)
wrRecTDValue(p)     == Num(p.recTD)
wrYPRValue(p)       == IF p.receptions > 0 THEN Rat(p.recYds, p.receptions) ELSE Zero
wrTDPGValue(p)      == IF p.games > 0 THEN Mul(Rat(p.recTD, p.games), Num(16)) ELSE Zero
defTacklesValue(p)  == Num(p.tackles)
defSacksValue(p)    == Num(p.sacks)
defINTValue(p)      == Num(p.interceptions)
defTurnoversValue(p) == Num(p.interceptions + p.forcedFumbles)
defTPGValue(p)      == IF p.games > 0 THEN Rat(p.tackles, p.games) ELSE Zero
ringsValue(p)       == Num(p.rings)
mvpValue(p)         == Num(p.mvp)
legacyValue(p)      == Num(p.careerLegacy)
dominanceValue(p)   == Num(p.dominance)

\* getValue(p) for the value function named by the key it has in `records`
CareerValue(getValue, p) ==
    CASE getValue = "qbPassYds"    -> qbPassYdsValue(p)
      [] getValue = "qbPassTD"     -> qbPassTDValue(p)
      [] getValue = "qbYPA"        -> qbYPAValue(p)
      [] getValue = "qbTDINT"      -> qbTDINTValue(p)
      [] getValue = "qbTotalTD"    -> qbTotalTDValue(p)
      [] getValue = "qbTotalYds"   -> qbTotalYdsValue(p)
      [] getValue = "rbRushYds"    -> rbRushYdsValue(p)
      [] getValue = "rbRushTD"     -> rbRushTDValue(p)
      [] getValue = "rbYPC"        -> rbYPCValue(p)
      [] getValue = "rbScrimmage"  -> rbScrimmageValue(p)
      [] getValue = "rbYPG"        -> rbYPGValue(p)
      [] getValue = "wrRecYds"     -> wrRecYdsValue(p)
      [] getValue = "wrRecTD"      -> wrRecTDValue(p)
      [] getValue = "wrYPR"        -> wrYPRValue(p)
      [] getValue = "wrTDPG"       -> wrTDPGValue(p)
      [] getValue = "teRecYds"     -> wrRecYdsValue(p)
      [] getValue = "teRecTD"      -> wrRecTDValue(p)
      [] getValue = "defTackles"   -> defTacklesValue(p)
      [] getValue = "defSacks"     -> defSacksValue(p)
      [] getValue = "defINT"       -> defINTValue(p)
      [] getValue = "defTurnovers" -> defTurnoversValue(p)
      [] getValue = "defTPG"       -> defTPGValue(p)
      [] getValue = "rings"        -> ringsValue(p)
      [] getValue = "mvp"          -> mvpValue(p)
      [] getValue = "legacy"       -> legacyValue(p)
      [] getValue = "dominance"    -> dominanceValue(p)

\* the `stat` label each leaderboard of `records` is built with
CareerStat(getValue) ==
    CASE getValue = "qbPassYds"    -> "Career Passing Yards"
      [] getValue = "qbPassTD"     -> "Career Passing TDs"
      [] getValue = "qbYPA"        -> "Yards Per Attempt"
      [] getValue = "qbTDINT"      -> "TD/INT Ratio"
      [] getValue = "qbTotalTD"    -> "Total TDs"
      [] getValue = "qbTotalYds"   -> "Total Yards"
      [] getValue = "rbRushYds"    -> "Career Rushing Yards"
      [] getValue = "rbRushTD"     -> "Career Rushing TDs"
      [] getValue = "rbYPC"        -> "Yards Per Carry"
      [] getValue = "rbScrimmage"  -> "Scrimmage Yards"
      [] getValue = "rbYPG"        -> "Yds/Game"
      [] getValue = "wrRecYds"     -> "Career Receiving Yards"
      [] getValue = "wrRecTD"      -> "Career Receiving TDs"
      [] getValue = "wrYPR"        -> "Yards Per Rec"
      [] getValue = "wrTDPG"       -> "TDs/16 Games"
      [] getValue = "teRecYds"     -> "TE Receiving Yards"
      [] getValue = "teRecTD"      -> "TE Receiving TDs"
      [] getValue = "defTackles"   -> "Career Tackles"
      [] getValue = "defSacks"     -> "Career Sacks"
      [] getValue = "defINT"       -> "Career INTs"
      [] getValue = "defTurnovers" -> "Turnovers Created"
      [] getValue = "defTPG"       -> "Tackles/Game"
      [] getValue = "rings"        -> "Championships"
      [] getValue = "mvp"          -> "MVP Awards"
      [] getValue = "legacy"       -> "Career Legacy"
      [] getValue = "dominance"    -> "Peak Dominance"

----------------------------------------------------------------------------
(* Leaderboard builder *)

\* the filter letting a value of 0 through
PositiveValue_nonNegative(v) == Geq(v, Zero)

\* (p) => getValue(p) > 0, the filter of findTopN and findTopNSeason
PositiveValue(v) == Gt(v, Zero)

\* players paired with their value, the form the sort compares them in
KeyedPlayers(players, getValue) ==
    [i \in 1..Len(players) |-> [key |-> CareerValue(getValue, players[i]), item |-> players[i]]]

findTopN(players, getValue, stat, n) ==
    IF Len(players) = 0 THEN Null
    ELSE LET keyed    == KeyedPlayers(players, getValue)
             filtered == FilterIdx(keyed, {i \in 1..Len(keyed) : PositiveValue(keyed[i].key)}, 1)
             sorted   == Slice0(SortDesc(filtered), n)
         IN  IF Len(sorted) = 0 THEN Null
             ELSE [stat |-> stat,
                   entries |-> [i \in 1..Len(sorted) |->
                       [stat |-> stat,
                        value |-> CareerValue(getValue, sorted[i].item),
                        playerName |-> sorted[i].item.name,
                        team |-> sorted[i].item.team,
                        position |-> sorted[i].item.position]]]

\* the number of entries every leaderboard of `records` asks for
TopNDefault == 5

QBBoards  == {"qbPassYds", "qbPassTD", "qbYPA", "qbTDINT", "qbTotalTD", "qbTotalYds"}
RBBoards  == {"rbRushYds", "rbRushTD", "rbYPC", "rbScrimmage", "rbYPG"}
WRBoards  == {"wrRecYds", "wrRecTD", "wrYPR", "wrTDPG"}
TEBoards  == {"teRecYds", "teRecTD"}
DefBoards == {"defTackles", "defSacks", "defINT", "defTurnovers", "defTPG"}
AllBoards == {"rings", "mvp", "legacy", "dominance"}
CareerBoards == QBBoards \cup RBBoards \cup WRBoards \cup TEBoards \cup DefBoards \cup AllBoards

\* the collection each leaderboard of `records` ranks
BoardPlayers(cd, b) ==
    IF b \in QBBoards THEN cd.quarterbacks
    ELSE IF b \in RBBoards THEN cd.runningbacks
    ELSE IF b \in WRBoards THEN cd.widereceivers
    ELSE IF b \in TEBoards THEN cd.tightends
    ELSE IF b \in DefBoards THEN allDefOf(cd)
    ELSE allPlayersOf(cd)

\* const records = { qbPassYds: findTopN(qbs, ...), ... }
records(cd) ==
    [b \in CareerBoards |-> findTopN(BoardPlayers(cd, b), b, CareerStat(b), TopNDefault)]

----------------------------------------------------------------------------
(* Advanced metrics: the best-in-class single leaders *)

MetricNames ==
    <<"Best Yards/Attempt", "Best TD/INT Ratio", "Completion %", "Best Yards/Carry",
      "Scrimmage Yds/Game", "Best Yards/Catch", "Receiving Yds/Game", "Sacks/Game",
      "Turnovers/Game">>

\* the collection each metric looks for its leader in
MetricPlayers(cd, m) ==
    CASE m \in {"Best Yards/Attempt", "Best TD/INT Ratio", "Completion %"} -> cd.quarterbacks
      [] m \in {"Best Yards/Carry", "Scrimmage Yds/Game"}                 -> cd.runningbacks
      [] m \in {"Best Yards/Catch", "Receiving Yds/Game"}                 -> cd.widereceivers
      [] m \in {"Sacks/Game", "Turnovers/Game"}                           -> allDefOf(cd)

\* the filters without their minimum sample: any positive denominator passes
MetricEligible_noMinimum(m, p) ==
    CASE m = "Best Yards/Attempt" -> p.attempts > 0
      [] m = "Best TD/INT Ratio"  -> p.interceptions > 0
      [] m = "Completion %"       -> p.attempts > 0
      [] m = "Best Yards/Carry"   -> p.rushAtt > 0
      [] m = "Scrimmage Yds/Game" -> p.games > 0
      [] m = "Best Yards/Catch"   -> p.receptions > 0
      [] m = "Receiving Yds/Game" -> p.games > 0
      [] m = "Sacks/Game"         -> p.games > 0
      [] m = "Turnovers/Game"     -> p.games > 0

\* the .filter(...) of each metric
MetricEligible(m, p) ==
    CASE m = "Best Yards/Attempt" -> p.attempts > 200
      [] m = "Best TD/INT Ratio"  -> p.interceptions > 0
      [] m = "Completion %"       -> p.attempts > 200
      [] m = "Best Yards/Carry"   -> p.rushAtt > 100
      [] m = "Scrimmage Yds/Game" -> p.games > 16
      [] m = "Best Yards/Catch"   -> p.receptions > 50
      [] m = "Receiving Yds/Game" -> p.games > 16
      [] m = "Sacks/Game"         -> p.games > 32
      [] m = "Turnovers/Game"     -> p.games > 32

\* the ratio each metric's .sort(...) compares; evaluated on eligible players only
MetricRatio(m, p) ==
    CASE m = "Best Yards/Attempt" -> Rat(p.passYds, p.attempts)
      [] m = "Best TD/INT Ratio"  -> Rat(p.passTD, p.interceptions)
      [] m = "Completion %"       -> Rat(p.completions, p.attempts)
      [] m = "Best Yards/Carry"   -> Rat(p.rushYds, p.rushAtt)
      [] m = "Scrimmage Yds/Game" -> Rat(p.rushYds + p.recYds, p.games)
      [] m = "Best Yards/Catch"   -> Rat(p.recYds, p.receptions)
      [] m = "Receiving Yds/Game" -> Rat(p.recYds, p.games)
      [] m = "Sacks/Game"         -> Rat(p.sacks, p.games)
      [] m = "Turnovers/Game"     -> Rat(p.interceptions + p.forcedFumbles, p.games)

\* the `value` pushed for the leader
MetricValue(m, p) ==
    IF m = "Completion %" THEN Mul(MetricRatio(m, p), Num(100)) ELSE MetricRatio(m, p)

\* the `position` pushed for the leader: a literal, or the player's own for defence
MetricPosition(m, p) ==
    CASE m \in {"Best Yards/Attempt", "Best TD/INT Ratio", "Completion %"} -> "QB"
      [] m \in {"Best Yards/Carry", "Scrimmage Yds/Game"}                 -> "RB"
      [] m \in {"Best Yards/Catch", "Receiving Yds/Game"}                 -> "WR"
      [] m \in {"Sacks/Game", "Turnovers/Game"}                           -> p.position

\* the ranking sorted the wrong way round: the smallest ratio first
MetricRanking_ascending(cd, m) ==
    LET ps       == MetricPlayers(cd, m)
        eligible == FilterIdx(ps, {i \in 1..Len(ps) : MetricEligible(m, ps[i])}, 1)
    IN  SortAsc([i \in 1..Len(eligible) |->
                    [key |-> MetricRatio(m, eligible[i]), item |-> eligible[i]]])

\* players.filter(eligible).sort(by ratio, descending)
MetricRanking(cd, m) ==
    LET ps       == MetricPlayers(cd, m)
        eligible == FilterIdx(ps, {i \in 1..Len(ps) : MetricEligible(m, ps[i])}, 1)
    IN  SortDesc([i \in 1..Len(eligible) |->
                     [key |-> MetricRatio(m, eligible[i]), item |-> eligible[i]]])

\* const top = ranking[0]; if (top) metrics.push({...})
MetricEntry(cd, m) ==
    LET ranking == MetricRanking(cd, m)
    IN  IF Len(ranking) = 0 THEN <<>>
        ELSE <<[name |-> m,
                value |-> MetricValue(m, ranking[1].item),
                playerName |-> ranking[1].item.name,
                team |-> ranking[1].item.team,
                position |-> MetricPosition(m, ranking[1].item)]>>

RECURSIVE MetricsFrom(_, _)
MetricsFrom(cd, i) ==
    IF i > Len(MetricNames) THEN <<>>
    ELSE MetricEntry(cd, MetricNames[i]) \o MetricsFrom(cd, i + 1)

\* const metrics: AdvancedMetric[] = []; ... metrics.push(...) per metric with a leader
metrics(cd) == MetricsFrom(cd, 1)

----------------------------------------------------------------------------
(* Pace projector *)

PaceCategories == <<"QB", "RB", "WR">>

PacePlayers(cd, cat) ==
    CASE cat = "QB" -> cd.quarterbacks
      [] cat = "RB" -> cd.runningbacks
      [] cat = "WR" -> cd.widereceivers

\* the career total the category's record is about
PaceStat(cat, p) ==
    CASE cat = "QB" -> p.passYds
      [] cat = "RB" -> p.rushYds
      [] cat = "WR" -> p.recYds

PaceRecordName(cat) ==
    CASE cat = "QB" -> "Career Passing Yards"
      [] cat = "RB" -> "Career Rushing Yards"
      [] cat = "WR" -> "Career Receiving Yards"

\* Math.max(...values)
MaxOf(values) == CHOOSE v \in values : \A w \in values : w <= v

\* a record taken over the active players only
RecordValue_activeOnly(cd, cat) ==
    LET ps == PacePlayers(cd, cat)
        active == {i \in 1..Len(ps) : ps[i].status = "Active" /\ ps[i].games >= 16}
    IN  IF active # {} THEN MaxOf({PaceStat(cat, ps[i]) : i \in active}) ELSE 0

\* players.length > 0 ? Math.max(...players.map(stat)) : 0
RecordValue(cd, cat) ==
    LET ps == PacePlayers(cd, cat)
    IN  IF Len(ps) > 0 THEN MaxOf({PaceStat(cat, ps[i]) : i \in 1..Len(ps)}) ELSE 0

\* the last player at the record value taken as its holder
RecordHolder_lastTied(cd, cat) ==
    LET ps   == PacePlayers(cd, cat)
        hits == {i \in 1..Len(ps) : PaceStat(cat, ps[i]) = RecordValue(cd, cat)}
    IN  IF hits = {} THEN Null ELSE ps[CHOOSE i \in hits : \A j \in hits : i >= j]

\* players.find(p => stat(p) === record): the first such player, or Null
RecordHolder(cd, cat) ==
    LET ps   == PacePlayers(cd, cat)
        hits == {i \in 1..Len(ps) : PaceStat(cat, ps[i]) = RecordValue(cd, cat)}
    IN  IF hits = {} THEN Null ELSE ps[CHOOSE i \in hits : \A j \in hits : i <= j]

\* players.filter(p => p.status === 'Active' && p.games >= 16)
PaceActive(p) == p.status = "Active" /\ p.games >= 16

\* p.games > 0 ? (stat / p.games) * 16 : 0
YdsPerSeason(cat, p) ==
    IF p.games > 0 THEN Mul(Rat(PaceStat(cat, p), p.games), Num(16)) ELSE Zero

\* Math.ceil(remaining / ydsPerSeason)
SeasonsToBreak(cd, cat, p) ==
    Ceil(Div(Num(RecordValue(cd, cat) - PaceStat(cat, p)), YdsPerSeason(cat, p)))

\* the horizon as an exclusive cutoff
WithinHorizon_exclusive(seasonsToBreak) == seasonsToBreak < 5

\* seasonsToBreak <= 5
WithinHorizon(seasonsToBreak) == seasonsToBreak <= 5

\* the body of activeXs.forEach: the pushed PaceToRecord, or nothing
PaceEntry(cd, cat, p) ==
    IF /\ Gt(YdsPerSeason(cat, p), Zero)
       /\ PaceStat(cat, p) < RecordValue(cd, cat)
       /\ RecordHolder(cd, cat) # Null
    THEN IF WithinHorizon(SeasonsToBreak(cd, cat, p))
         THEN <<[playerName |-> p.name,
                 position |-> cat,
                 team |-> p.team,
                 recordName |-> PaceRecordName(cat),
                 currentValue |-> PaceStat(cat, p),
                 recordValue |-> RecordValue(cd, cat),
                 recordHolder |-> RecordHolder(cd, cat).name,
                 seasonsToBreak |-> SeasonsToBreak(cd, cat, p),
                 pacePerSeason |-> YdsPerSeason(cat, p),
                 percentToRecord |-> Mul(Rat(PaceStat(cat, p), RecordValue(cd, cat)), Num(100))]>>
         ELSE <<>>
    ELSE <<>>

RECURSIVE PaceOfCategory(_, _, _)
PaceOfCategory(cd, cat, active) ==
    IF active = <<>> THEN <<>>
    ELSE PaceEntry(cd, cat, Head(active)) \o PaceOfCategory(cd, cat, Tail(active))

\* the three forEach loops, in the order QB, RB, WR
PacePushed(cd) ==
    LET Active(cat) ==
            LET ps == PacePlayers(cd, cat)
            IN  FilterIdx(ps, {i \in 1..Len(ps) : PaceActive(ps[i])}, 1)
    IN  PaceOfCategory(cd, "QB", Active("QB")) \o
        PaceOfCategory(cd, "RB", Active("RB")) \o
        PaceOfCategory(cd, "WR", Active("WR"))

\* the pushed records left in push order
SortBySeasons_pushOrder(pushed) == pushed

\* paceRecords.sort((a, b) => a.seasonsToBreak - b.seasonsToBreak), stripped of the sort keys
SortBySeasons(pushed) ==
    LET sorted == SortAsc([i \in 1..Len(pushed) |->
                             [key |-> Num(pushed[i].seasonsToBreak), item |-> pushed[i]]])
    IN  [i \in 1..Len(sorted) |-> sorted[i].item]

paceRecords(cd) == SortBySeasons(PacePushed(cd))

----------------------------------------------------------------------------
(* Season snapshots and the season score engine *)

\* snapshot.f || 0: a field the snapshot does not carry reads as 0
Field(snapshot, f) == IF f \in DOMAIN snapshot THEN snapshot[f] ELSE 0

\* if (snapshot.f): the field is present and not 0
Truthy(snapshot, f) == f \in DOMAIN snapshot /\ snapshot[f] # 0

QB == <<"Q", "B">>
RB == <<"R", "B">>
WR == <<"W", "R">>
TE == <<"T", "E">>
OL == <<"O", "L">>
LB == <<"L", "B">>
DB == <<"D", "B">>
DL == <<"D", "L">>

\* the award bonus with rings worth 50, the weight of roty
awardBonus_ringsAsRoty(snapshot) ==
    Field(snapshot, "mvp") * 100 + Field(snapshot, "opoy") * 75 +
    Field(snapshot, "sbmvp") * 80 + Field(snapshot, "roty") * 50 +
    Field(snapshot, "rings") * 50

awardBonus(snapshot) ==
    Field(snapshot, "mvp") * 100 + Field(snapshot, "opoy") * 75 +
    Field(snapshot, "sbmvp") * 80 + Field(snapshot, "roty") * 50 +
    Field(snapshot, "rings") * 60

\* the defensive formula kept for LB, DB and DL only, any other unlisted
\* position scoring its awards alone
calculateSeasonScore_defenceOnly(snapshot, position) ==
    IF position = QB THEN
        Add(Sub(Add(Add(Add(Rat(Field(snapshot, "passYds"), 50),
                            Num(Field(snapshot, "passTD") * 10)),
                        Rat(Field(snapshot, "rushYds"), 20)),
                    Num(Field(snapshot, "rushTD") * 15)),
                Num(Field(snapshot, "interceptions") * 5)),
            Num(awardBonus(snapshot)))
    ELSE IF position = RB THEN
        Add(Add(Add(Add(Rat(Field(snapshot, "rushYds"), 20),
                        Num(Field(snapshot, "rushTD") * 15)),
                    Rat(Field(snapshot, "recYds"), 30)),
                Num(Field(snapshot, "recTD") * 10)),
            Num(awardBonus(snapshot)))
    ELSE IF position = WR \/ position = TE THEN
        Add(Add(Add(Rat(Field(snapshot, "recYds"), 20),
                    Num(Field(snapshot, "receptions") * 2)),
                Num(Field(snapshot, "recTD") * 15)),
            Num(awardBonus(snapshot)))
    ELSE IF position = LB \/ position = DB \/ position = DL THEN
        Add(Add(Add(Add(Num(Field(snapshot, "tackles") * 2),
                        Num(Field(snapshot, "sacks") * 15)),
                    Num(Field(snapshot, "interceptions") * 20)),
                Num(Field(snapshot, "forcedFumbles") * 10)),
            Num(awardBonus(snapshot)))
    ELSE Num(awardBonus(snapshot))

calculateSeasonScore(snapshot, position) ==
    IF position = QB THEN
        Add(Sub(Add(Add(Add(Rat(Field(snapshot, "passYds"), 50),
                            Num(Field(snapshot, "passTD") * 10)),
                        Rat(Field(snapshot, "rushYds"), 20)),
                    Num(Field(snapshot, "rushTD") * 15)),
                Num(Field(snapshot, "interceptions") * 5)),
            Num(awardBonus(snapshot)))
    ELSE IF position = RB THEN
        Add(Add(Add(Add(Rat(Field(snapshot, "rushYds"), 20),
                        Num(Field(snapshot, "rushTD") * 15)),
                    Rat(Field(snapshot, "recYds"), 30)),
                Num(Field(snapshot, "recTD") * 10)),
            Num(awardBonus(snapshot)))
    ELSE IF position = WR \/ position = TE THEN
        Add(Add(Add(Rat(Field(snapshot, "recYds"), 20),
                    Num(Field(snapshot, "receptions") * 2)),
                Num(Field(snapshot, "recTD") * 15)),
            Num(awardBonus(snapshot)))
    ELSE
        Add(Add(Add(Add(Num(Field(snapshot, "tackles") * 2),
                        Num(Field(snapshot, "sacks") * 15)),
                    Num(Field(snapshot, "interceptions") * 20)),
                Num(Field(snapshot, "forcedFumbles") * 10)),
            Num(awardBonus(snapshot)))

\* the thresholds as exclusive lower bounds
getSeasonTier_exclusive(score) ==
    IF Gt(score, Num(800)) THEN "LEGENDARY"
    ELSE IF Gt(score, Num(600)) THEN "ELITE"
    ELSE IF Gt(score, Num(400)) THEN "GREAT"
    ELSE IF Gt(score, Num(250)) THEN "NOTABLE"
    ELSE "SOLID"

\* GREAT reaching down to 250, with no NOTABLE tier left
getSeasonTier_greatFrom250(score) ==
    IF Geq(score, Num(800)) THEN "LEGENDARY"
    ELSE IF Geq(score, Num(600)) THEN "ELITE"
    ELSE IF Geq(score, Num(250)) THEN "GREAT"
    ELSE "SOLID"

\* the label of the tier object getSeasonTier returns
getSeasonTier(score) ==
    IF Geq(score, Num(800)) THEN "LEGENDARY"
    ELSE IF Geq(score, Num(600)) THEN "ELITE"
    ELSE IF Geq(score, Num(400)) THEN "GREAT"
    ELSE IF Geq(score, Num(250)) THEN "NOTABLE"
    ELSE "SOLID"

----------------------------------------------------------------------------
(* Player keys "POS:Name" *)

Colon == ":"

\* the index of the first ':' of s at or after i, or 0
RECURSIVE FirstColon(_, _)
FirstColon(s, i) ==
    IF i > Len(s) THEN 0
    ELSE IF s[i] = Colon THEN i
    ELSE FirstColon(s, i + 1)

\* String.prototype.split(':')
RECURSIVE Split(_)
Split(s) ==
    LET c == FirstColon(s, 1)
    IN  IF c = 0 THEN <<s>>
        ELSE <<SubSeq(s, 1, c - 1)>> \o Split(SubSeq(s, c + 1, Len(s)))

\* Array.prototype.join(':')
RECURSIVE Join(_)
Join(parts) ==
    IF parts = <<>> THEN <<>>
    ELSE IF Len(parts) = 1 THEN parts[1]
    ELSE parts[1] \o <<Colon>> \o Join(Tail(parts))

\* String.prototype.startsWith
StartsWith(s, prefix) ==
    Len(s) >= Len(prefix) /\ SubSeq(s, 1, Len(prefix)) = prefix

\* const [position, ...nameParts] = playerKey.split(':')
KeyPosition(playerKey) == Head(Split(playerKey))

\* only the first part after the position taken as the name
KeyName_firstPart(playerKey) ==
    IF Len(Split(playerKey)) > 1 THEN Split(playerKey)[2] ELSE <<>>

\* nameParts.join(':')
KeyName(playerKey) == Join(Tail(Split(playerKey)))

----------------------------------------------------------------------------
(* Single-season leaderboards *)

\* every stored player counted, also one with a single season
HasSeveralSeasons_anySeason(snapshots) == Len(snapshots) >= 1

\* a player's snapshots are looked at only when it has more than one
HasSeveralSeasons(snapshots) == ~(Len(snapshots) <= 1)

RECURSIVE Flatten(_)
Flatten(entries) ==
    IF entries = <<>> THEN <<>>
    ELSE LET e == Head(entries)
         IN  (IF HasSeveralSeasons(e.snapshots)
              THEN [i \in 1..Len(e.snapshots) |->
                       [playerKey |-> e.playerKey, snapshot |-> e.snapshots[i]]]
              ELSE <<>>) \o Flatten(Tail(entries))

\* Object.entries(history).forEach(...): allSnapshots
allSnapshotsOf(h) == Flatten(h)

SeasonBoards ==
    {"qbPassYds", "qbPassTD", "qbTotalTD", "rbRushYds", "rbRushTD", "rbScrimmage",
     "wrRecYds", "wrRecTD", "teRecYds", "defTackles", "defSacks", "defINT"}

\* the key prefixes each single-season leaderboard's filter accepts
SeasonPrefixes(b) ==
    CASE b \in {"qbPassYds", "qbPassTD", "qbTotalTD"}    -> {QB \o <<Colon>>}
      [] b \in {"rbRushYds", "rbRushTD", "rbScrimmage"}  -> {RB \o <<Colon>>}
      [] b \in {"wrRecYds", "wrRecTD"}                   -> {WR \o <<Colon>>}
      [] b = "teRecYds"                                  -> {TE \o <<Colon>>}
      [] b \in {"defTackles", "defSacks", "defINT"}      ->
             {LB \o <<Colon>>, DB \o <<Colon>>, DL \o <<Colon>>}

\* a filter that lets every player key through
SeasonFilter_anyKey(b, playerKey) == TRUE

\* (k) => k.startsWith('QB:') and the like
SeasonFilter(b, playerKey) == \E prefix \in SeasonPrefixes(b) : StartsWith(playerKey, prefix)

\* the value function of each single-season leaderboard
SeasonValue(b, s) ==
    CASE b = "qbPassYds"   -> Num(Field(s, "passYds"))
      [] b = "qbPassTD"    -> Num(Field(s, "passTD"))
      [] b = "qbTotalTD"   -> Num(Field(s, "passTD") + Field(s, "rushTD"))
      [] b = "rbRushYds"   -> Num(Field(s, "rushYds"))
      [] b = "rbRushTD"    -> Num(Field(s, "rushTD"))
      [] b = "rbScrimmage" -> Num(Field(s, "rushYds") + Field(s, "recYds"))
      [] b = "wrRecYds"    -> Num(Field(s, "recYds"))
      [] b = "wrRecTD"     -> Num(Field(s, "recTD"))
      [] b = "teRecYds"    -> Num(Field(s, "recYds"))
      [] b = "defTackles"  -> Num(Field(s, "tackles"))
      [] b = "defSacks"    -> Num(Field(s, "sacks"))
      [] b = "defINT"      -> Num(Field(s, "interceptions"))

SeasonStat(b) ==
    CASE b = "qbPassYds"   -> "Passing Yards"
      [] b = "qbPassTD"    -> "Passing TDs"
      [] b = "qbTotalTD"   -> "Total TDs"
      [] b = "rbRushYds"   -> "Rushing Yards"
      [] b = "rbRushTD"    -> "Rushing TDs"
      [] b = "rbScrimmage" -> "Scrimmage Yds"
      [] b = "wrRecYds"    -> "Receiving Yards"
      [] b = "wrRecTD"     -> "Receiving TDs"
      [] b = "teRecYds"    -> "TE Rec Yards"
      [] b = "defTackles"  -> "Tackles"
      [] b = "defSacks"    -> "Sacks"
      [] b = "defINT"      -> "INTs"

findTopNSeason(allSnapshots, b, stat, n) ==
    LET filtered == FilterIdx(allSnapshots,
                        {i \in 1..Len(allSnapshots) : SeasonFilter(b, allSnapshots[i].playerKey)}, 1)
    IN  IF Len(filtered) = 0 THEN Null
        ELSE LET keyed    == [i \in 1..Len(filtered) |->
                                 [key |-> SeasonValue(b, filtered[i].snapshot), item |-> filtered[i]]]
                 positive == FilterIdx(keyed, {i \in 1..Len(keyed) : PositiveValue(keyed[i].key)}, 1)
                 sorted   == Slice0(SortDesc(positive), n)
             IN  IF Len(sorted) = 0 THEN Null
                 ELSE [stat |-> stat,
                       entries |-> [i \in 1..Len(sorted) |->
                           [stat |-> stat,
                            value |-> SeasonValue(b, sorted[i].item.snapshot),
                            playerName |-> KeyName(sorted[i].item.playerKey),
                            position |-> KeyPosition(sorted[i].item.playerKey),
                            season |-> sorted[i].item.snapshot.season]]]

\* the second useMemo of RecordsTab
singleSeasonRecordsOf(h) ==
    IF Len(allSnapshotsOf(h)) = 0 THEN Null
    ELSE [b \in SeasonBoards |-> findTopNSeason(allSnapshotsOf(h), b, SeasonStat(b), TopNDefault)]

----------------------------------------------------------------------------
(* Greatest seasons *)

\* the labelled key stats pushed for a season, by position
KeyStatFields(position) ==
    IF position = QB THEN <<"passYds", "passTD", "rushYds">>
    ELSE IF position = RB THEN <<"rushYds", "rushTD", "recYds">>
    ELSE IF position = WR \/ position = TE THEN <<"recYds", "receptions", "recTD">>
    ELSE <<"tackles", "sacks", "interceptions">>

SeasonStats(snapshot, position) ==
    LET fs == KeyStatFields(position)
        kept == FilterIdx(fs, {i \in 1..Len(fs) : Truthy(snapshot, fs[i])}, 1)
    IN  [i \in 1..Len(kept) |-> [label |-> kept[i], value |-> snapshot[kept[i]]]]

\* seasons.push({...}) for one snapshot
GreatSeason(playerKey, snapshot) ==
    [playerName |-> KeyName(playerKey),
     position |-> KeyPosition(playerKey),
     season |-> snapshot.season,
     score |-> calculateSeasonScore(snapshot, KeyPosition(playerKey)),
     stats |-> SeasonStats(snapshot, KeyPosition(playerKey)),
     awards |-> [mvp |-> Field(snapshot, "mvp"), opoy |-> Field(snapshot, "opoy"),
                 sbmvp |-> Field(snapshot, "sbmvp"), roty |-> Field(snapshot, "roty"),
                 rings |-> Field(snapshot, "rings")]]

\* the number of seasons kept by .slice(0, 20)
GreatestKept == 20

\* the third useMemo of RecordsTab
greatestSeasonsOf(h) ==
    LET all    == allSnapshotsOf(h)
        pushed == [i \in 1..Len(all) |-> GreatSeason(all[i].playerKey, all[i].snapshot)]
        sorted == SortDesc([i \in 1..Len(pushed) |-> [key |-> pushed[i].score, item |-> pushed[i]]])
        kept   == Slice0(sorted, GreatestKept)
    IN  [i \in 1..Len(kept) |-> kept[i].item]

----------------------------------------------------------------------------
(* Array.prototype.sort sorts in place: which arrays the sorts are applied to *)

\* an array built during the computation, not one of the context's collections
NewArray == "new array"

\* [...array] and [...a, ...b]
Spread(array) == NewArray

\* array.filter(f)
Filtered(array) == NewArray

\* the leaderboards of `records` in the order they are built
BoardOrder ==
    <<"qbPassYds", "qbPassTD", "qbYPA", "qbTDINT", "qbTotalTD", "qbTotalYds",
      "rbRushYds", "rbRushTD", "rbYPC", "rbScrimmage", "rbYPG",
      "wrRecYds", "wrRecTD", "wrYPR", "wrTDPG", "teRecYds", "teRecTD",
      "defTackles", "defSacks", "defINT", "defTurnovers", "defTPG",
      "rings", "mvp", "legacy", "dominance">>

\* qbs, rbs, wrs, tes are the context's own arrays; allDef and allPlayers are
\* concatenations
BoardArray(b) ==
    IF b \in QBBoards THEN "quarterbacks"
    ELSE IF b \in RBBoards THEN "runningbacks"
    ELSE IF b \in WRBoards THEN "widereceivers"
    ELSE IF b \in TEBoards THEN "tightends"
    ELSE Spread("linebackers")

MetricArray(m) ==
    CASE m \in {"Best Yards/Attempt", "Best TD/INT Ratio", "Completion %"} -> "quarterbacks"
      [] m \in {"Best Yards/Carry", "Scrimmage Yds/Game"}                 -> "runningbacks"
      [] m \in {"Best Yards/Catch", "Receiving Yds/Game"}                 -> "widereceivers"
      [] m \in {"Sacks/Game", "Turnovers/Game"}                           -> Spread("linebackers")

\* players.sort(...) on the argument itself
findTopNSorts_inPlace(players) == players

\* the array findTopN sorts: [...players].filter(...)
findTopNSorts(players) == Filtered(Spread(players))

\* the array an advanced metric sorts: qbs.filter(...)
MetricSorts(players) == Filtered(players)

\* every sort of the first useMemo on an array of players, in source order
SortSites ==
    [i \in 1..Len(BoardOrder) |->
        [array |-> findTopNSorts(BoardArray(BoardOrder[i])), by |-> BoardOrder[i]]]
    \o [i \in 1..Len(MetricNames) |->
        [array |-> MetricSorts(MetricArray(MetricNames[i])), by |-> MetricNames[i]]]

\* what a descending sort by a leaderboard's or metric's value leaves in the array
SortedInPlace(players, by) ==
    LET value(q) == IF by \in CareerBoards THEN CareerValue(by, q) ELSE MetricRatio(by, q)
        sorted == SortDesc([i \in 1..Len(players) |->
                               [key |-> value(players[i]), item |-> players[i]]])
    IN  [i \in 1..Len(sorted) |-> sorted[i].item]

\* the context's collections after the sorts: a sort of a new array leaves
\* them alone
RECURSIVE AfterSorts(_, _)
AfterSorts(cd, sites) ==
    IF sites = <<>> THEN cd
    ELSE LET site == Head(sites)
         IN  AfterSorts(IF site.array = NewArray THEN cd
                        ELSE [cd EXCEPT ![site.array] = SortedInPlace(@, site.by)],
                        Tail(sites))

----------------------------------------------------------------------------
(* The records view: the three useMemo computations of one render *)

\* season memos that depend on the career data only
RecordsTabDeps_careerOnly ==
    [first |-> <<careerData, dataVersion>>, second |-> <<careerData>>, third |-> <<careerData>>]

\* the dependency lists [careerData, dataVersion], [dataVersion], [dataVersion]
RecordsTabDeps ==
    [first |-> <<careerData, dataVersion>>, second |-> <<dataVersion>>, third |-> <<dataVersion>>]

RecordsTabRender ==
    /\ allTimeRecords = NotComputed
    /\ call = Null
    /\ IF careerData = Null
       THEN /\ allTimeRecords' = Null
            /\ advancedMetrics' = <<>>
            /\ paceToRecords' = <<>>
       ELSE /\ allTimeRecords' = records(careerData)
            /\ advancedMetrics' = metrics(careerData)
            /\ paceToRecords' = paceRecords(careerData)
    /\ singleSeasonRecords' = singleSeasonRecordsOf(history)
    /\ greatestSeasons' = greatestSeasonsOf(history)
    /\ memoDeps' = RecordsTabDeps
    /\ careerData' = (IF careerData = Null THEN careerData ELSE AfterSorts(careerData, SortSites))
    /\ UNCHANGED <<history, call, ret, seasonData, dataVersion, tabs>>

Rendered == allTimeRecords # NotComputed

\* no upload has been made and no other tab has rendered
FreshContext ==
    /\ seasonData = Null
    /\ dataVersion = 0
    /\ memoDeps = NotComputed
    /\ recordsView = NotComputed
    /\ performances = NotComputed
    /\ commentary = NotComputed

\* the state before the first render, for given context data and stored history
Mounted(cd, h) ==
    /\ careerData = cd
    /\ history = h
    /\ allTimeRecords = NotComputed
    /\ advancedMetrics = NotComputed
    /\ paceToRecords = NotComputed
    /\ singleSeasonRecords = NotComputed
    /\ greatestSeasons = NotComputed
    /\ call = Null
    /\ ret = Null
    /\ FreshContext

----------------------------------------------------------------------------
(* Bounded inputs: career data for the leaderboards and advanced metrics *)

\* the most players drawn into one position group
MaxPlayers == 2

PlayerNames == <<"P1", "P2", "P3", "P4", "P5", "P6">>

\* all sequences of at most n elements of S
SeqsUpTo(S, n) == UNION {[1..k -> S] : k \in 0..n}

\* the sample sizes straddle each minimum (0, just below, exactly at, just above)
QBStats ==
    {[attempts |-> a, passYds |-> t[1], passTD |-> t[2], interceptions |-> t[3]] :
        a \in {0, 199, 200, 201}, t \in {<<0, 0, 0>>, <<1600, 10, 0>>, <<1600, 10, 2>>}}
RBStats ==
    {[rushAtt |-> t[1], games |-> t[2], rushYds |-> y] :
        t \in {<<0, 0>>, <<0, 17>>, <<100, 0>>, <<100, 16>>, <<101, 16>>, <<101, 17>>},
        y \in {0, 500}}
WRStats ==
    {[receptions |-> t[1], games |-> t[2], recYds |-> y[1], recTD |-> y[2]] :
        t \in {<<0, 0>>, <<0, 17>>, <<50, 0>>, <<50, 16>>, <<51, 16>>, <<51, 17>>},
        y \in {<<0, 0>>, <<900, 5>>}}
DefStats ==
    {[position |-> pos, games |-> g, tackles |-> t[1], sacks |-> t[2]] :
        pos \in {"LB", "DB"}, g \in {0, 32, 33}, t \in {<<0, 0>>, <<80, 10>>}}

QBsOf(q) ==
    [i \in 1..Len(q) |-> QBPlayer(PlayerNames[i], "Retired", 40, q[i].passYds, q[i].passTD,
                                  q[i].attempts, q[i].attempts \div 2, q[i].interceptions)]
RBsOf(r) ==
    [i \in 1..Len(r) |-> RBPlayer(PlayerNames[i], "Retired", r[i].games, r[i].rushYds,
                                  r[i].rushAtt, 0)]
WRsOf(w) ==
    [i \in 1..Len(w) |-> WRPlayer(PlayerNames[i], "WR", "Retired", w[i].games, w[i].recYds,
                                  w[i].recTD, w[i].receptions)]
DefsOf(d) ==
    [i \in 1..Len(d) |-> DefPlayer(PlayerNames[i], d[i].position, "Retired", d[i].games,
                                   d[i].tackles, d[i].sacks, 1, 1)]

\* career data with one populated position group
MetricCareers ==
    {[EmptyCareer EXCEPT !.quarterbacks = QBsOf(q)] : q \in SeqsUpTo(QBStats, MaxPlayers)}
    \cup {[EmptyCareer EXCEPT !.runningbacks = RBsOf(r)] : r \in SeqsUpTo(RBStats, MaxPlayers)}
    \cup {[EmptyCareer EXCEPT !.widereceivers = WRsOf(w)] : w \in SeqsUpTo(WRStats, MaxPlayers)}
    \cup {[EmptyCareer EXCEPT
              !.linebackers = FilterIdx(DefsOf(d), {i \in 1..Len(d) : d[i].position = "LB"}, 1),
              !.defensivebacks = FilterIdx(DefsOf(d), {i \in 1..Len(d) : d[i].position = "DB"}, 1)]
          : d \in SeqsUpTo(DefStats, MaxPlayers)}

InitMetrics == \E cd \in MetricCareers : Mounted(cd, <<>>)

NextRender == RecordsTabRender

\* the records view rendered over career data with one populated position group
SpecMetrics == InitMetrics /\ [][NextRender]_vars

----------------------------------------------------------------------------
(* Properties of the career leaderboards and advanced metrics *)

\* the entries of a career leaderboard, <<>> when the leaderboard is absent
BoardEntries(b) == IF allTimeRecords[b] = Null THEN <<>> ELSE allTimeRecords[b].entries

InBoard(b, name) == \E i \in 1..Len(BoardEntries(b)) : BoardEntries(b)[i].playerName = name

HasMetric(m) == \E i \in 1..Len(advancedMetrics) : advancedMetrics[i].name = m

MetricLeaders(m) ==
    {advancedMetrics[i].playerName : i \in {j \in 1..Len(advancedMetrics) : advancedMetrics[j].name = m}}

Elems(seq) == {seq[i] : i \in 1..Len(seq)}

RatioBoards == {"qbYPA", "qbTDINT", "rbYPC", "rbYPG", "wrYPR", "wrTDPG", "defTPG"}

\* the denominator of each ratio leaderboard
BoardDenominator(b, p) ==
    CASE b = "qbYPA"   -> p.attempts
      [] b = "qbTDINT" -> p.interceptions
      [] b = "rbYPC"   -> p.rushAtt
      [] b = "rbYPG"   -> p.games
      [] b = "wrYPR"   -> p.receptions
      [] b = "wrTDPG"  -> p.games
      [] b = "defTPG"  -> p.games

ZeroDenominatorIsZero(b) ==
    \A p \in Elems(BoardPlayers(careerData, b)) :
        BoardDenominator(b, p) = 0 =>
            /\ CareerValue(b, p) = Zero
            /\ ~InBoard(b, p.name)

MetricDenominator(m, p) ==
    CASE m \in {"Best Yards/Attempt", "Completion %"}                          -> p.attempts
      [] m = "Best TD/INT Ratio"                                               -> p.interceptions
      [] m = "Best Yards/Carry"                                                -> p.rushAtt
      [] m = "Best Yards/Catch"                                                -> p.receptions
      [] m \in {"Scrimmage Yds/Game", "Receiving Yds/Game", "Sacks/Game", "Turnovers/Game"} -> p.games

\* the minimum sample each best-in-class metric names
MetricMinimum(m) ==
    CASE m \in {"Best Yards/Attempt", "Completion %"}        -> 200
      [] m = "Best TD/INT Ratio"                             -> 1
      [] m = "Best Yards/Carry"                              -> 100
      [] m = "Best Yards/Catch"                              -> 50
      [] m \in {"Scrimmage Yds/Game", "Receiving Yds/Game"}  -> 16
      [] m \in {"Sacks/Game", "Turnovers/Game"}              -> 32

MeetsMinimum(m, p) == MetricDenominator(m, p) >= MetricMinimum(m)

\* the metrics whose description states the minimum
StatedMinimumMetrics == {"Best Yards/Attempt", "Best Yards/Catch", "Sacks/Game", "Turnovers/Game"}

\* C3 as stated: eligibility is "at least the minimum" - a metric with a stated
\* minimum (200 attempts, 50 receptions, 32 games) is reported iff some player of
\* its collection has a denominator >= the minimum, and its leader is such a player.
C3_AtLeastMinimum ==
    (Rendered /\ careerData # Null) =>
        \A m \in StatedMinimumMetrics :
            HasMetric(m) <=> \E p \in Elems(MetricPlayers(careerData, m)) : MeetsMinimum(m, p)

\* the plain cumulative leaderboard over the collection of each metric
PlainBoard(m) ==
    CASE m \in {"Best Yards/Attempt", "Best TD/INT Ratio", "Completion %"} -> "qbPassYds"
      [] m \in {"Best Yards/Carry", "Scrimmage Yds/Game"}                 -> "rbRushYds"
      [] m \in {"Best Yards/Catch", "Receiving Yds/Game"}                 -> "wrRecYds"
      [] m \in {"Sacks/Game", "Turnovers/Game"}                           -> "defTackles"

\* C4: a player below a metric's minimum is never that metric's leader; when no
\* player meets the minimum the metric is omitted; and a below-minimum player
\* with a positive total still appears in the plain career leaderboard.
C4_BelowMinimumExcluded ==
    (Rendered /\ careerData # Null) =>
        \A m \in Elems(MetricNames) :
            LET ps == MetricPlayers(careerData, m)
            IN  /\ \A p \in Elems(ps) : p.name \in MetricLeaders(m) => MeetsMinimum(m, p)
                /\ (\A p \in Elems(ps) : ~MeetsMinimum(m, p)) => ~HasMetric(m)
                /\ \A p \in Elems(ps) :
                      (/\ ~MeetsMinimum(m, p)
                       /\ Len(ps) <= TopNDefault
                       /\ Gt(CareerValue(PlainBoard(m), p), Zero))
                      => InBoard(PlainBoard(m), p.name)

\* a quarterback below 200 attempts out-rates one above: the metric names the
\* other, and the first is on the passing-yards leaderboard
C4_Witness ==
    /\ Rendered
    /\ careerData # Null
    /\ \E p, q \in Elems(careerData.quarterbacks) :
          /\ p.attempts = 199 /\ p.passYds > 0 /\ q.attempts = 201 /\ q.passYds = 0
          /\ MetricLeaders("Best Yards/Attempt") = {q.name}
          /\ InBoard("qbPassYds", p.name)
    /\ ~HasMetric("Best TD/INT Ratio")

----------------------------------------------------------------------------
(* The season score engine applied to bounded snapshots *)

\* the most stat fields a drawn snapshot carries
MaxFields == 2

YardFields  == {"passYds", "rushYds", "recYds"}
CountFields == {"passTD", "rushTD", "interceptions", "recTD", "receptions", "tackles",
                "sacks", "forcedFumbles"}
AwardFields == {"mvp", "opoy", "sbmvp", "roty", "rings"}
ScoreFields == YardFields \cup CountFields \cup AwardFields

FieldValues(f) ==
    IF f \in YardFields THEN {0, 130, 4000}
    ELSE IF f \in CountFields THEN {0, 3, 30}
    ELSE {0, 1, 2}

\* snapshots of season "Y1" carrying at most MaxFields stat fields
SparseSnapshots ==
    UNION {{g @@ [season |-> "Y1"] :
               g \in {h \in [F -> {0, 1, 2, 3, 30, 130, 4000}] : \A f \in F : h[f] \in FieldValues(f)}}
           : F \in {G \in SUBSET ScoreFields : Cardinality(G) <= MaxFields}}

\* the quarterback season of the worked example
ExampleSnapshot ==
    [season |-> "Y1", passYds |-> 4000, passTD |-> 30, rushYds |-> 200, rushTD |-> 2,
     interceptions |-> 10]

ScorePositions == {QB, RB, WR, TE, OL, LB, DB, DL, <<>>, <<"q", "b">>}

ScoreCalls ==
    {[fn |-> "calculateSeasonScore", snapshot |-> s, position |-> pos] :
        s \in SparseSnapshots \cup {ExampleSnapshot}, pos \in ScorePositions}

\* scores at, just below and just above every tier threshold, and far from them
TierProbes ==
    {Rat(t * 1000 + e, 1000) : t \in {250, 400, 600, 800}, e \in {-1, 0, 1}}
    \cup {Num(-50), Zero, Num(370), Num(1200)}

TierCalls == {[fn |-> "getSeasonTier", score |-> x] : x \in TierProbes}

\* a pure function about to be invoked, outside any render
Invoking(c) ==
    /\ call = c
    /\ ret = Null
    /\ careerData = Null
    /\ history = <<>>
    /\ allTimeRecords = NotComputed
    /\ advancedMetrics = NotComputed
    /\ paceToRecords = NotComputed
    /\ singleSeasonRecords = NotComputed
    /\ greatestSeasons = NotComputed
    /\ FreshContext

InitScore == \E c \in ScoreCalls \cup TierCalls : Invoking(c)

\* const score = calculateSeasonScore(snapshot, position)
CallCalculateSeasonScore ==
    /\ call # Null
    /\ call.fn = "calculateSeasonScore"
    /\ ret = Null
    /\ ret' = [score |-> calculateSeasonScore(call.snapshot, call.position)]
    /\ UNCHANGED <<careerData, history, allTimeRecords, advancedMetrics, paceToRecords,
                   singleSeasonRecords, greatestSeasons, call, league, tabs>>

\* const tier = getSeasonTier(season.score), for a scored season
ClassifySeason ==
    /\ call # Null
    /\ call.fn = "calculateSeasonScore"
    /\ ret # Null
    /\ "tier" \notin DOMAIN ret
    /\ ret' = [score |-> ret.score, tier |-> getSeasonTier(ret.score)]
    /\ UNCHANGED <<careerData, history, allTimeRecords, advancedMetrics, paceToRecords,
                   singleSeasonRecords, greatestSeasons, call, league, tabs>>

\* getSeasonTier(score) for a score given directly
CallGetSeasonTier ==
    /\ call # Null
    /\ call.fn = "getSeasonTier"
    /\ ret = Null
    /\ ret' = [score |-> call.score, tier |-> getSeasonTier(call.score)]
    /\ UNCHANGED <<careerData, history, allTimeRecords, advancedMetrics, paceToRecords,
                   singleSeasonRecords, greatestSeasons, call, league, tabs>>

NextScore == CallCalculateSeasonScore \/ ClassifySeason \/ CallGetSeasonTier

\* calculateSeasonScore and getSeasonTier applied to bounded inputs
SpecScore == InitScore /\ [][NextScore]_vars

Scored == call # Null /\ call.fn = "calculateSeasonScore" /\ ret # Null

Classified == call # Null /\ ret # Null /\ "tier" \in DOMAIN ret

\* a snapshot field read with an absent field counting as 0
ReadOrZero(s, f) == IF f \in DOMAIN s THEN s[f] ELSE 0

\* 300 times the award bonus of the formula
Bonus300(s) ==
    300 * (ReadOrZero(s, "mvp") * 100 + ReadOrZero(s, "opoy") * 75 + ReadOrZero(s, "sbmvp") * 80
           + ReadOrZero(s, "roty") * 50 + ReadOrZero(s, "rings") * 60)

\* 300 times the score the formula gives (300 clears the divisors 50, 20 and 30)
Formula300(s, position) ==
    CASE position = QB ->
             6 * ReadOrZero(s, "passYds") + 3000 * ReadOrZero(s, "passTD")
             + 15 * ReadOrZero(s, "rushYds") + 4500 * ReadOrZero(s, "rushTD")
             - 1500 * ReadOrZero(s, "interceptions") + Bonus300(s)
      [] position = RB ->
             15 * ReadOrZero(s, "rushYds") + 4500 * ReadOrZero(s, "rushTD")
             + 10 * ReadOrZero(s, "recYds") + 3000 * ReadOrZero(s, "recTD") + Bonus300(s)
      [] position \in {WR, TE} ->
             15 * ReadOrZero(s, "recYds") + 600 * ReadOrZero(s, "receptions")
             + 4500 * ReadOrZero(s, "recTD") + Bonus300(s)
      [] position \in {LB, DB, DL} ->
             600 * ReadOrZero(s, "tackles") + 4500 * ReadOrZero(s, "sacks")
             + 6000 * ReadOrZero(s, "interceptions") + 3000 * ReadOrZero(s, "forcedFumbles")
             + Bonus300(s)

\* C5: for QB, RB, WR, TE, LB, DB and DL the score equals the position's formula
\* plus the award bonus, every absent snapshot field read as 0.
C5_ScoreFormula ==
    (Scored /\ call.position \in {QB, RB, WR, TE, LB, DB, DL}) =>
        ret.score.n * 300 = ret.score.d * Formula300(call.snapshot, call.position)

\* a running back season carrying only rings and receiving yards has been scored
C5_Witness ==
    /\ Scored
    /\ call.position = RB
    /\ DOMAIN call.snapshot = {"season", "rings", "recYds"}
    /\ call.snapshot.rings = 2 /\ call.snapshot.recYds = 130
    /\ ret.score = Rat(373, 3)

\* C6: LEGENDARY iff score >= 800, ELITE iff 600 <= score < 800, GREAT iff
\* 400 <= score < 600, NOTABLE iff 250 <= score < 400, SOLID iff score < 250.
C6_TierBounds ==
    Classified =>
        /\ (ret.tier = "LEGENDARY" <=> ret.score.n >= 800 * ret.score.d)
        /\ (ret.tier = "ELITE" <=> (600 * ret.score.d <= ret.score.n /\ ret.score.n < 800 * ret.score.d))
        /\ (ret.tier = "GREAT" <=> (400 * ret.score.d <= ret.score.n /\ ret.score.n < 600 * ret.score.d))
        /\ (ret.tier = "NOTABLE" <=> (250 * ret.score.d <= ret.score.n /\ ret.score.n < 400 * ret.score.d))
        /\ (ret.tier = "SOLID" <=> ret.score.n < 250 * ret.score.d)
        /\ (ret.score = Rat(799999, 1000) => ret.tier = "ELITE")

\* a score of exactly 800 has been classified LEGENDARY
C6_Witness ==
    /\ Classified
    /\ call.fn = "getSeasonTier"
    /\ ret.score = Num(800)
    /\ ret.tier = "LEGENDARY"

ExampleClassified ==
    /\ Classified
    /\ call.fn = "calculateSeasonScore"
    /\ call.snapshot = ExampleSnapshot
    /\ call.position = QB

\* C7 as stated: the worked example is scored 370 and classified GREAT.
C7_ExampleIsGreat ==
    ExampleClassified => (ret.score = Num(370) /\ ret.tier = "GREAT")

\* C7 amended: the worked example is scored 370 and classified NOTABLE.
C7_ExampleIsNotable ==
    ExampleClassified => (ret.score = Num(370) /\ ret.tier = "NOTABLE")

C7_Witness == ExampleClassified /\ ret.score = Num(370)

----------------------------------------------------------------------------
(* Bounded inputs: career data for the pace projector *)

\* totals of 100 over 16 games give a pace of 100 a season; records of 600 and
\* 700 then leave 500 (5 seasons) and 600 (6 seasons)
PaceStats ==
    {[status |-> t[1], games |-> t[2], yds |-> y] :
        t \in {<<"Active", 16>>, <<"Active", 15>>, <<"Retired", 16>>},
        y \in {0, 100, 300, 600, 700}}

PacePlayerOf(cat, name, x) ==
    CASE cat = "QB" -> QBPlayer(name, x.status, x.games, x.yds, 0, 0, 0, 0)
      [] cat = "RB" -> RBPlayer(name, x.status, x.games, x.yds, 0, 0)
      [] cat = "WR" -> WRPlayer(name, "WR", x.status, x.games, x.yds, 0, 0)

PaceGroupOf(cat, xs) == [i \in 1..Len(xs) |-> PacePlayerOf(cat, PlayerNames[i], xs[i])]

\* the groups the other two categories are drawn from: empty, one player five
\* seasons away, one six seasons and one two seasons away, or one two seasons
\* away from a record two players share
SideGroups ==
    {<<>>,
     <<[status |-> "Retired", games |-> 16, yds |-> 700],
       [status |-> "Active", games |-> 15, yds |-> 700],
       [status |-> "Active", games |-> 16, yds |-> 300]>>,
     <<[status |-> "Retired", games |-> 16, yds |-> 600],
       [status |-> "Active", games |-> 16, yds |-> 100]>>,
     <<[status |-> "Retired", games |-> 16, yds |-> 700],
       [status |-> "Active", games |-> 16, yds |-> 100],
       [status |-> "Active", games |-> 16, yds |-> 300]>>}

PaceCareerOf(q, r, w) ==
    [EmptyCareer EXCEPT !.quarterbacks = PaceGroupOf("QB", q),
                        !.runningbacks = PaceGroupOf("RB", r),
                        !.widereceivers = PaceGroupOf("WR", w)]

\* one category (the focus) drawn freely, the other two from SideGroups
FocusedCareer(focus, x, a, b) ==
    CASE focus = "QB" -> PaceCareerOf(x, a, b)
      [] focus = "RB" -> PaceCareerOf(a, x, b)
      [] focus = "WR" -> PaceCareerOf(a, b, x)

InitPace ==
    \E focus \in {"QB", "RB", "WR"}, x \in SeqsUpTo(PaceStats, MaxPlayers),
       a \in SideGroups, b \in SideGroups :
        Mounted(FocusedCareer(focus, x, a, b), <<>>)

\* the records view rendered over career data of quarterbacks, running backs and receivers
SpecPace == InitPace /\ [][NextRender]_vars

----------------------------------------------------------------------------
(* Properties of the pace projector *)

PaceEmitted(cat, name) ==
    {paceToRecords[i] : i \in {j \in 1..Len(paceToRecords) :
        paceToRecords[j].position = cat /\ paceToRecords[j].playerName = name}}

\* the category total: passYds for QB, rushYds for RB, recYds for WR
CategoryTotal(cat, p) ==
    IF cat = "QB" THEN p.passYds ELSE IF cat = "RB" THEN p.rushYds ELSE p.recYds

CategoryPlayers(cat) ==
    IF cat = "QB" THEN careerData.quarterbacks
    ELSE IF cat = "RB" THEN careerData.runningbacks
    ELSE careerData.widereceivers

\* the category record: the largest total of any player of the category
CategoryRecord(cat) ==
    LET totals == {CategoryTotal(cat, p) : p \in Elems(CategoryPlayers(cat))}
    IN  CHOOSE r \in totals : \A t \in totals : t <= r

\* C8: a PaceRecord is emitted for a player of a category iff the player is
\* Active, has games >= 16, a pace (total / games) * 16 > 0, a total strictly
\* below the category record, and ceil((record - total) / pace) <= 5; the
\* emitted seasonsToBreak is that ceiling and pacePerSeason that pace.
C8_PaceEmission ==
    (Rendered /\ careerData # Null) =>
        \A cat \in {"QB", "RB", "WR"} :
            \A p \in Elems(CategoryPlayers(cat)) :
                LET total     == CategoryTotal(cat, p)
                    remaining == CategoryRecord(cat) - total
                IN  /\ (PaceEmitted(cat, p.name) # {}) <=>
                           (/\ p.status = "Active"
                            /\ p.games >= 16
                            /\ 16 * total > 0
                            /\ total < CategoryRecord(cat)
                            /\ remaining * p.games <= 5 * 16 * total)
                    /\ \A e \in PaceEmitted(cat, p.name) :
                           /\ e.pacePerSeason.n * p.games = e.pacePerSeason.d * 16 * total
                           /\ e.seasonsToBreak * 16 * total >= remaining * p.games
                           /\ (e.seasonsToBreak - 1) * 16 * total < remaining * p.games

\* remaining 500 at pace 100 is emitted with 5 seasons, and in another category
\* remaining 600 at pace 100 is not emitted
C8_Witness ==
    /\ Rendered
    /\ careerData # Null
    /\ \E i \in 1..Len(paceToRecords) :
          /\ paceToRecords[i].position = "QB"
          /\ paceToRecords[i].recordValue - paceToRecords[i].currentValue = 500
          /\ paceToRecords[i].pacePerSeason = Num(100)
          /\ paceToRecords[i].seasonsToBreak = 5
    /\ \E p \in Elems(careerData.runningbacks) :
          /\ p.status = "Active" /\ p.games = 16 /\ p.rushYds = 100
          /\ CategoryRecord("RB") = 700
          /\ PaceEmitted("RB", p.name) = {}

\* C9: the pace list is in non-decreasing order of seasonsToBreak, across all
\* three categories together.
C9_PaceSorted ==
    (Rendered /\ careerData # Null) =>
        \A i, j \in 1..Len(paceToRecords) :
            i < j => paceToRecords[i].seasonsToBreak <= paceToRecords[j].seasonsToBreak

\* a receiver and a running back are both listed ahead of a quarterback who is
\* further from the record
C9_Witness ==
    /\ Rendered
    /\ careerData # Null
    /\ Len(paceToRecords) >= 3
    /\ paceToRecords[1].position = "WR"
    /\ paceToRecords[2].position = "RB"
    /\ paceToRecords[3].position = "QB"
    /\ paceToRecords[1].seasonsToBreak < paceToRecords[3].seasonsToBreak

----------------------------------------------------------------------------
(* Bounded inputs: season histories *)

\* the most seasons stored for one player
MaxSeasons == 2

\* the most players of a generated league
MaxLeaguePlayers == 14

SeasonLabels == <<"Y1", "Y2", "Y3", "Y4">>

Letters == <<"A", "B", "C", "D", "E", "F", "G", "H", "I", "J", "K", "L", "M", "N", "O", "P">>

\* a stat line growing with v; v = 0 is a snapshot that carries no stat field
LevelSnapshot(label, v) ==
    IF v = 0 THEN [season |-> label]
    ELSE [season |-> label, passYds |-> 1000 * v, passTD |-> 10 * v, interceptions |-> v,
          rushYds |-> 400 * v, rushTD |-> v, recYds |-> 300 * v, receptions |-> 20 * v,
          recTD |-> 2 * v, tackles |-> 40 * v, sacks |-> v, forcedFumbles |-> v,
          mvp |-> 0, rings |-> IF v = 2 THEN 1 ELSE 0]

PlayerKey(position, name) == position \o <<Colon>> \o name

\* two quarterbacks, one with a ':' in the name, and a linebacker
HistKeys == <<PlayerKey(QB, <<"A">>), PlayerKey(QB, <<"B", ":", "C">>), PlayerKey(LB, <<"A">>)>>

\* the snapshot sequences of one player: seasons Y1.. in order, one level each
SeasonRuns(counts) ==
    UNION {{[j \in 1..k |-> LevelSnapshot(SeasonLabels[j], lv[j])] : lv \in [1..k -> {0, 1, 2}]}
           : k \in counts}

\* the stored entries for the players of HistKeys that have at least one season
HistoryOf(runs) ==
    LET all == [i \in 1..Len(HistKeys) |-> [playerKey |-> HistKeys[i], snapshots |-> runs[i]]]
    IN  FilterIdx(all, {i \in 1..Len(all) : Len(runs[i]) > 0}, 1)

SmallHistories ==
    {HistoryOf(runs) : runs \in [1..Len(HistKeys) -> SeasonRuns(0..MaxSeasons)]}

LeaguePositions == <<QB, RB, WR, TE, OL, LB, DB, DL>>

\* a league of np players: every fourth player has a single season, the others
\* MaxSeasons; positions cycle and the stat levels vary with the seed
LeagueHistory(np, seed) ==
    [i \in 1..np |->
        [playerKey |-> PlayerKey(LeaguePositions[(i % 8) + 1], <<Letters[i]>>),
         snapshots |-> [j \in 1..(IF i % 4 = 0 THEN 1 ELSE MaxSeasons) |->
                           LevelSnapshot(SeasonLabels[j], (i * seed + 2 * j) % 5)]]]

LeagueHistories == {LeagueHistory(np, seed) : np \in 0..MaxLeaguePlayers, seed \in {1, 2, 3}}

InitSeasons == \E h \in SmallHistories \cup LeagueHistories : Mounted(Null, h)

\* the records view rendered over a stored season history
SpecSeasons == InitSeasons /\ [][NextRender]_vars

----------------------------------------------------------------------------
(* The leaderboard builder applied to bounded inputs *)

\* the largest n a leaderboard is asked for
MaxTopN == 2

\* histories in which every stored player of HistKeys has two seasons
PairedHistories ==
    {HistoryOf(runs) : runs \in [1..Len(HistKeys) -> SeasonRuns({0, 2})]} \ {<<>>}

\* findTopN as `records` calls it, for every leaderboard and a drawn n
InvokingFindTopN ==
    \E cd \in MetricCareers, b \in CareerBoards, n \in 0..MaxTopN :
        Invoking([fn |-> "findTopN", players |-> BoardPlayers(cd, b), getValue |-> b, n |-> n])

\* findTopNSeason as the single-season memo calls it, for a drawn n
InvokingFindTopNSeason ==
    \E h \in PairedHistories, b \in SeasonBoards, n \in 0..MaxTopN :
        Invoking([fn |-> "findTopNSeason", allSnapshots |-> allSnapshotsOf(h), board |-> b, n |-> n])

InitTopN == InvokingFindTopN \/ InvokingFindTopNSeason

CallFindTopN ==
    /\ call # Null
    /\ call.fn = "findTopN"
    /\ ret = Null
    /\ ret' = [result |-> findTopN(call.players, call.getValue, CareerStat(call.getValue), call.n)]
    /\ UNCHANGED <<careerData, history, allTimeRecords, advancedMetrics, paceToRecords,
                   singleSeasonRecords, greatestSeasons, call, league, tabs>>

CallFindTopNSeason ==
    /\ call # Null
    /\ call.fn = "findTopNSeason"
    /\ ret = Null
    /\ ret' = [result |-> findTopNSeason(call.allSnapshots, call.board, SeasonStat(call.board), call.n)]
    /\ UNCHANGED <<careerData, history, allTimeRecords, advancedMetrics, paceToRecords,
                   singleSeasonRecords, greatestSeasons, call, league, tabs>>

NextTopN == CallFindTopN \/ CallFindTopNSeason

\* findTopN and findTopNSeason applied to bounded inputs
SpecTopN == InitTopN /\ [][NextTopN]_vars

----------------------------------------------------------------------------
(* Properties of the leaderboard builder and of the greatest seasons *)

TopNReturned == call # Null /\ call.fn \in {"findTopN", "findTopNSeason"} /\ ret # Null

ResultEntries == IF ret.result = Null THEN <<>> ELSE ret.result.entries

\* C1: the entries of a career or single-season leaderboard are in
\* non-increasing order of value, at most n, and each of value > 0.
C1_LeaderboardShape ==
    TopNReturned =>
        /\ Len(ResultEntries) <= call.n
        /\ \A i \in 1..Len(ResultEntries) : ResultEntries[i].value.n > 0
        /\ \A i, j \in 1..Len(ResultEntries) :
              i < j => ResultEntries[j].value.n * ResultEntries[i].value.d
                          <= ResultEntries[i].value.n * ResultEntries[j].value.d

\* a single-season leaderboard cut to two entries, out of input order, with a
\* candidate of value 0 and a third positive candidate left out
C1_Witness ==
    /\ TopNReturned
    /\ call.fn = "findTopNSeason"
    /\ call.board = "qbPassYds"
    /\ call.n = 2
    /\ Len(ResultEntries) = 2
    /\ ResultEntries[1].value = Num(2000)
    /\ ResultEntries[2].value = Num(1000)
    /\ Len(call.allSnapshots) = 4
    /\ call.allSnapshots[1].snapshot = LevelSnapshot("Y1", 0)
    /\ call.allSnapshots[2].snapshot = LevelSnapshot("Y2", 1)
    /\ call.allSnapshots[3].snapshot = LevelSnapshot("Y1", 2)
    /\ call.allSnapshots[4].snapshot = LevelSnapshot("Y2", 1)

\* the stored entries whose key serializes the entry's position and name
OwnersOf(e) == {h \in Elems(history) : h.playerKey = PlayerKey(e.position, e.playerName)}

\* C10: every greatest-seasons entry is a snapshot of a player with more than
\* one stored season, scored by calculateSeasonScore with the position of its
\* key; a player with exactly one snapshot never appears; the list is in
\* non-increasing order of score and has at most 20 entries.
C10_GreatestSeasons ==
    Rendered =>
        /\ Len(greatestSeasons) <= 20
        /\ \A i, j \in 1..Len(greatestSeasons) :
              i < j => Geq(greatestSeasons[i].score, greatestSeasons[j].score)
        /\ \A i \in 1..Len(greatestSeasons) :
              LET e == greatestSeasons[i]
              IN  /\ OwnersOf(e) # {}
                  /\ \A h \in OwnersOf(e) :
                        /\ Len(h.snapshots) > 1
                        /\ \E s \in Elems(h.snapshots) :
                              /\ s.season = e.season
                              /\ e.score = calculateSeasonScore(s, e.position)

\* more than 20 eligible snapshots cut to 20, while a player with a single
\* season that would have made the cut is left out
C10_Witness ==
    /\ Rendered
    /\ Len(greatestSeasons) = 20
    /\ Cardinality({k \in 1..Len(history) : Len(history[k].snapshots) > 1}) > 10
    /\ \E h \in Elems(history) :
          /\ Len(h.snapshots) = 1
          /\ Gt(calculateSeasonScore(h.snapshots[1], KeyPosition(h.playerKey)),
                greatestSeasons[20].score)

----------------------------------------------------------------------------
(* The leaderboards as the true top of their candidates *)

\* what identifies a candidate: a player's name (names are distinct within a
\* collection), or a snapshot's player key and season label
TopNCandidates ==
    IF call.fn = "findTopN"
    THEN {[id |-> <<p.name>>, value |-> CareerValue(call.getValue, p)] : p \in Elems(call.players)}
    ELSE {[id |-> <<x.playerKey, x.snapshot.season>>, value |-> SeasonValue(call.board, x.snapshot)] :
             x \in {y \in Elems(call.allSnapshots) :
                       \E prefix \in SeasonPrefixes(call.board) : StartsWith(y.playerKey, prefix)}}

PositiveCandidates == {c \in TopNCandidates : c.value.n > 0}

EntryId(e) ==
    IF call.fn = "findTopN" THEN <<e.playerName>>
    ELSE <<PlayerKey(e.position, e.playerName), e.season>>

\* C20: every entry is a positive candidate with its own value, no candidate
\* is entered twice, a positive candidate is left out only when the result is
\* full (n entries) and every entry's value is >= its value, and with fewer
\* than n positive candidates all of them are entered.
C20_TrueTop ==
    TopNReturned =>
        /\ \A i \in 1..Len(ResultEntries) :
              \E c \in PositiveCandidates :
                  c.id = EntryId(ResultEntries[i]) /\ c.value = ResultEntries[i].value
        /\ \A i, j \in 1..Len(ResultEntries) :
              i # j => EntryId(ResultEntries[i]) # EntryId(ResultEntries[j])
        /\ \A c \in PositiveCandidates :
              (\A i \in 1..Len(ResultEntries) : EntryId(ResultEntries[i]) # c.id) =>
                  /\ Len(ResultEntries) = call.n
                  /\ \A i \in 1..Len(ResultEntries) :
                        c.value.n * ResultEntries[i].value.d <= ResultEntries[i].value.n * c.value.d
        /\ Cardinality(PositiveCandidates) < call.n =>
              Len(ResultEntries) = Cardinality(PositiveCandidates)

\* of two ranked running backs the second in the collection has the greater
\* yards per carry and takes the single place; the first is left out
C20_Witness ==
    /\ TopNReturned
    /\ call.fn = "findTopN"
    /\ call.getValue = "rbYPC"
    /\ call.n = 1
    /\ Len(call.players) = 2
    /\ Lt(Zero, CareerValue("rbYPC", call.players[1]))
    /\ Lt(CareerValue("rbYPC", call.players[1]), CareerValue("rbYPC", call.players[2]))
    /\ Len(ResultEntries) = 1
    /\ ResultEntries[1].playerName = call.players[2].name

----------------------------------------------------------------------------
(* The single-season leaderboards over the stored history *)

SeasonBoardEntries(b) ==
    IF singleSeasonRecords = Null THEN <<>>
    ELSE IF singleSeasonRecords[b] = Null THEN <<>>
    ELSE singleSeasonRecords[b].entries

\* the stored snapshots of board b's position group with a positive value, of
\* the stored players `owners`
StoredCandidates(b, owners) ==
    UNION {{[playerKey |-> h.playerKey, season |-> s.season, value |-> SeasonValue(b, s)] :
               s \in {t \in Elems(h.snapshots) : SeasonValue(b, t).n > 0}}
           : h \in {g \in owners : \E prefix \in SeasonPrefixes(b) : StartsWith(g.playerKey, prefix)}}

InSeasonBoard(b, c) ==
    \E i \in 1..Len(SeasonBoardEntries(b)) :
        LET e == SeasonBoardEntries(b)[i]
        IN  PlayerKey(e.position, e.playerName) = c.playerKey /\ e.season = c.season
            /\ e.value = c.value

\* board b is the top 5 of the candidates `cands`
IsTopOf(b, cands) ==
    /\ \A i \in 1..Len(SeasonBoardEntries(b)) :
          LET e == SeasonBoardEntries(b)[i]
          IN  \E c \in cands : PlayerKey(e.position, e.playerName) = c.playerKey
                               /\ e.season = c.season /\ e.value = c.value
    /\ \A c \in cands :
          ~InSeasonBoard(b, c) =>
              /\ Len(SeasonBoardEntries(b)) = TopNDefault
              /\ \A i \in 1..Len(SeasonBoardEntries(b)) :
                    Leq(c.value, SeasonBoardEntries(b)[i].value)

\* C11 as stated: every stored snapshot with the group's prefix and a positive
\* value is a candidate of the group's single-season leaderboard, a player's
\* only snapshot included.
C11_EveryStoredSnapshot ==
    Rendered => \A b \in SeasonBoards : IsTopOf(b, StoredCandidates(b, Elems(history)))

\* C11 amended: the candidates are the stored snapshots with the group's prefix
\* and a positive value of the players with more than one stored season; the
\* only snapshot of a player is never entered.
C11_SeveralSeasonsOnly ==
    Rendered =>
        \A b \in SeasonBoards :
            /\ IsTopOf(b, StoredCandidates(b, {h \in Elems(history) : Len(h.snapshots) > 1}))
            /\ \A c \in StoredCandidates(b, {h \in Elems(history) : Len(h.snapshots) = 1}) :
                  ~InSeasonBoard(b, c)

\* a quarterback with one stored season of positive passing yards is missing
\* from a passing-yards leaderboard that has room, next to one with two seasons
C11_Witness ==
    /\ Rendered
    /\ Len(SeasonBoardEntries("qbPassYds")) \in 1..4
    /\ \E h \in Elems(history) :
          /\ Len(h.snapshots) = 1
          /\ StartsWith(h.playerKey, QB \o <<Colon>>)
          /\ SeasonValue("qbPassYds", h.snapshots[1]).n > 0
          /\ \A i \in 1..Len(SeasonBoardEntries("qbPassYds")) :
                SeasonBoardEntries("qbPassYds")[i].playerName # KeyName(h.playerKey)

----------------------------------------------------------------------------
(* SeasonTab: the season label derived from the uploaded file's name *)

Digits == {"0", "1", "2", "3", "4", "5", "6", "7", "8", "9"}

\* \d
IsDigit(c) == c \in Digits

\* y under the i flag
IsY(c) == c \in {"y", "Y"}

\* the start of the leftmost match of /y(\d+)/i at or after index i, 0 for none
RECURSIVE MatchFrom(_, _)
MatchFrom(s, i) ==
    IF i + 1 > Len(s) THEN 0
    ELSE IF IsY(s[i]) /\ IsDigit(s[i + 1]) THEN i
    ELSE MatchFrom(s, i + 1)

\* (\d+) is greedy: the whole run of digits from index j on
RECURSIVE DigitRun(_, _)
DigitRun(s, j) ==
    IF j > Len(s) THEN <<>>
    ELSE IF IsDigit(s[j]) THEN <<s[j]>> \o DigitRun(s, j + 1)
    ELSE <<>>

\* a capture group that stops after its first digit
seasonMatch_firstDigit(filename) ==
    LET i == MatchFrom(filename, 1)
    IN  IF i = 0 THEN Null ELSE [index |-> i, group1 |-> <<filename[i + 1]>>]

\* const seasonMatch = filename.match(/y(\d+)/i)
seasonMatch(filename) ==
    LET i == MatchFrom(filename, 1)
    IN  IF i = 0 THEN Null ELSE [index |-> i, group1 |-> DigitRun(filename, i + 1)]

NewSeason == <<"N", "e", "w", " ", "S", "e", "a", "s", "o", "n">>

\* const seasonName = seasonMatch ? `Y${seasonMatch[1]}` : 'New Season'
seasonName(filename) ==
    IF seasonMatch(filename) = Null THEN NewSeason
    ELSE <<"Y">> \o seasonMatch(filename).group1

\* handleFileLoad(content, filename): the invocations of loadSeasonData it makes
handleFileLoad(content, filename) ==
    <<[fn |-> "loadSeasonData", content |-> content, seasonName |-> seasonName(filename)]>>

MaxNameLen == 4

FilenameChars == {"y", "Y", "1", "0", "s", "."}

InitUpload ==
    \E filename \in SeqsUpTo(FilenameChars, MaxNameLen), content \in {"rows", ""} :
        Invoking([fn |-> "handleFileLoad", content |-> content, filename |-> filename])

\* <FileUpload onFileLoad={handleFileLoad} /> delivers a file
CallHandleFileLoad ==
    /\ call # Null
    /\ call.fn = "handleFileLoad"
    /\ ret = Null
    /\ ret' = [invoked |-> handleFileLoad(call.content, call.filename)]
    /\ UNCHANGED <<careerData, history, allTimeRecords, advancedMetrics, paceToRecords,
                   singleSeasonRecords, greatestSeasons, call, league, tabs>>

NextUpload == CallHandleFileLoad

SpecUpload == InitUpload /\ [][NextUpload]_vars

FileLoaded == call # Null /\ call.fn = "handleFileLoad" /\ ret # Null

\* index i starts an occurrence of y or Y immediately followed by a digit
YDigitAt(s, i) == i + 1 <= Len(s) /\ s[i] \in {"y", "Y"} /\ s[i + 1] \in Digits

\* C17: handleFileLoad invokes loadSeasonData exactly once, with the file's
\* content and a non-empty label: "Y" followed by the digits that follow the
\* first y or Y that has a digit right after it, or "New Season" when the
\* name has no such occurrence.
C17_SeasonLabel ==
    FileLoaded =>
        LET name  == call.filename
            label == ret.invoked[1].seasonName
        IN  /\ Len(ret.invoked) = 1
            /\ ret.invoked[1].fn = "loadSeasonData"
            /\ ret.invoked[1].content = call.content
            /\ Len(label) > 0
            /\ (\A i \in 1..Len(name) : ~YDigitAt(name, i)) => label = NewSeason
            /\ \A i \in 1..Len(name) :
                  (YDigitAt(name, i) /\ \A k \in 1..(i - 1) : ~YDigitAt(name, k)) =>
                      \E j \in (i + 1)..Len(name) :
                          /\ \A k \in (i + 1)..j : name[k] \in Digits
                          /\ j = Len(name) \/ name[j + 1] \notin Digits
                          /\ label = <<"Y">> \o SubSeq(name, i + 1, j)

\* "sY10": the label is Y10, both digits of the first occurrence
C17_Witness ==
    /\ FileLoaded
    /\ call.filename = <<"s", "Y", "1", "0">>
    /\ ret.invoked[1].seasonName = <<"Y", "1", "0">>

----------------------------------------------------------------------------
(* The league context: uploads, the season history store, the data version *)

\* Player.position as the characters of a player key's prefix
PositionChars(position) ==
    CASE position = "QB" -> QB [] position = "RB" -> RB [] position = "WR" -> WR
      [] position = "TE" -> TE [] position = "OL" -> OL [] position = "LB" -> LB
      [] position = "DB" -> DB [] position = "DL" -> DL

\* the snapshot created on upload for one row: the season label and the row's
\* numeric stat and award fields
SnapshotOf(label, row) ==
    [f \in {"season"} \cup (DOMAIN row \cap ScoreFields) |->
        IF f = "season" THEN label ELSE row[f]]

KeyIndex(h, key) ==
    IF \E i \in 1..Len(h) : h[i].playerKey = key
    THEN CHOOSE i \in 1..Len(h) : h[i].playerKey = key
    ELSE 0

LabelIndex(snapshots, label) ==
    IF \E i \in 1..Len(snapshots) : snapshots[i].season = label
    THEN CHOOSE i \in 1..Len(snapshots) : snapshots[i].season = label
    ELSE 0

\* an append that never looks for the label
append_alwaysAtEnd(h, key, snapshot) ==
    LET k == KeyIndex(h, key)
    IN  IF k = 0 THEN Append(h, [playerKey |-> key, snapshots |-> <<snapshot>>])
        ELSE [h EXCEPT ![k].snapshots = Append(@, snapshot)]

\* append(key, snapshot): replace in place the snapshot with the same season
\* label, otherwise append to the end
append(h, key, snapshot) ==
    LET k == KeyIndex(h, key)
    IN  IF k = 0 THEN Append(h, [playerKey |-> key, snapshots |-> <<snapshot>>])
        ELSE LET i == LabelIndex(h[k].snapshots, snapshot.season)
             IN  IF i = 0 THEN [h EXCEPT ![k].snapshots = Append(@, snapshot)]
                 ELSE [h EXCEPT ![k].snapshots[i] = snapshot]

\* every row of an upload, position collection by position collection
RowsOf(sd) ==
    sd.quarterbacks \o sd.runningbacks \o sd.widereceivers \o sd.tightends \o
    sd.offensiveline \o sd.linebackers \o sd.defensivebacks \o sd.defensiveline

RowKey(row) == PlayerKey(PositionChars(row.position), <<row.name>>)

RECURSIVE AppendRows(_, _, _)
AppendRows(h, rows, label) ==
    IF rows = <<>> THEN h
    ELSE AppendRows(append(h, RowKey(Head(rows)), SnapshotOf(label, Head(rows))), Tail(rows), label)

MaxUploads == 3

\* the uploads tried: a season holds quarterback A and/or linebacker A
UploadLabels == {"Y1", "Y2"}
UploadSeasons ==
    {[EmptyCareer EXCEPT !.quarterbacks = q, !.linebackers = l] :
        q \in {<<>>} \cup {<<QBPlayer("A", "Active", 16, y, 20, 400, 250, 10)>> : y \in {2000, 4000}},
        l \in {<<>>, <<DefPlayer("A", "LB", "Active", 16, 60, 3, 1, 1)>>}}
    \ {EmptyCareer}
UploadCareers ==
    {[EmptyCareer EXCEPT !.quarterbacks = <<QBPlayer("A", "Active", g, 250 * g, 2 * g, 30 * g, 20 * g, g)>>] :
        g \in {16, 32}}

\* loadCareerData: the career collections are replaced wholesale, then the
\* data version is bumped
LoadCareerData(cd) ==
    /\ call = Null
    /\ dataVersion < MaxUploads
    /\ careerData' = cd
    /\ dataVersion' = dataVersion + 1
    /\ UNCHANGED <<history, allTimeRecords, advancedMetrics, paceToRecords,
                   singleSeasonRecords, greatestSeasons, call, ret, seasonData, memoDeps, tabs>>

\* loadSeasonData(content, seasonName): the season's rows become seasonData,
\* one snapshot per row is appended to the store, then the data version is bumped
LoadSeasonData(sd, label) ==
    /\ call = Null
    /\ dataVersion < MaxUploads
    /\ seasonData' = sd
    /\ history' = AppendRows(history, RowsOf(sd), label)
    /\ dataVersion' = dataVersion + 1
    /\ UNCHANGED <<careerData, allTimeRecords, advancedMetrics, paceToRecords,
                   singleSeasonRecords, greatestSeasons, call, ret, memoDeps, tabs>>

\* a later render of RecordsTab: each useMemo runs again iff one of its
\* dependencies differs from the value it last ran with
RecordsTabRerender ==
    /\ Rendered
    /\ call = Null
    /\ IF memoDeps.first # RecordsTabDeps.first
       THEN IF careerData = Null
            THEN /\ allTimeRecords' = Null
                 /\ advancedMetrics' = <<>>
                 /\ paceToRecords' = <<>>
                 /\ UNCHANGED careerData
            ELSE /\ allTimeRecords' = records(careerData)
                 /\ advancedMetrics' = metrics(careerData)
                 /\ paceToRecords' = paceRecords(careerData)
                 /\ careerData' = AfterSorts(careerData, SortSites)
       ELSE UNCHANGED <<allTimeRecords, advancedMetrics, paceToRecords, careerData>>
    /\ IF memoDeps.second # RecordsTabDeps.second
       THEN singleSeasonRecords' = singleSeasonRecordsOf(history)
       ELSE UNCHANGED singleSeasonRecords
    /\ IF memoDeps.third # RecordsTabDeps.third
       THEN greatestSeasons' = greatestSeasonsOf(history)
       ELSE UNCHANGED greatestSeasons
    /\ memoDeps' = RecordsTabDeps
    /\ UNCHANGED <<history, call, ret, seasonData, dataVersion, tabs>>

InitVersions == Mounted(Null, <<>>)

NextVersions ==
    \/ \E cd \in UploadCareers : LoadCareerData(cd)
    \/ \E sd \in UploadSeasons, label \in UploadLabels : LoadSeasonData(sd, label)
    \/ RecordsTabRender
    \/ RecordsTabRerender

SpecVersions == InitVersions /\ [][NextVersions]_vars

----------------------------------------------------------------------------
(* The store under repeated uploads; the memos under data-version changes *)

\* no key is stored twice and no key holds two snapshots with one label
OneSnapshotPerLabel ==
    /\ \A i, j \in 1..Len(history) : i # j => history[i].playerKey # history[j].playerKey
    /\ \A k \in 1..Len(history) :
          \A i, j \in 1..Len(history[k].snapshots) :
              i # j => history[k].snapshots[i].season # history[k].snapshots[j].season

\* what one step may do to the store: every key keeps its place and every
\* stored label keeps its position; a snapshot changes only into the uploaded
\* row's snapshot with the same label; a key gains at most one snapshot, at the
\* end; and after a change every uploaded row is stored, once, under one label
StoreStep ==
    /\ Len(history') >= Len(history)
    /\ \A k \in 1..Len(history) :
          LET old == history[k].snapshots
              new == history'[k].snapshots
              rows == {r \in Elems(RowsOf(seasonData')) : RowKey(r) = history[k].playerKey}
          IN  /\ history'[k].playerKey = history[k].playerKey
              /\ Len(new) \in {Len(old), Len(old) + 1}
              /\ \A i \in 1..Len(old) :
                    /\ new[i].season = old[i].season
                    /\ new[i] # old[i] => \E r \in rows : new[i] = SnapshotOf(old[i].season, r)
    /\ history' # history =>
          \E label \in UploadLabels :
              \A r \in Elems(RowsOf(seasonData')) :
                  \E k \in 1..Len(history') :
                      /\ history'[k].playerKey = RowKey(r)
                      /\ Cardinality({i \in 1..Len(history'[k].snapshots) :
                                         history'[k].snapshots[i].season = label}) = 1
                      /\ \E i \in 1..Len(history'[k].snapshots) :
                            history'[k].snapshots[i] = SnapshotOf(label, r)

\* C18: after any sequence of appends a key holds at most one snapshot per
\* season label; appending a label that is already stored replaces that
\* snapshot in place with the latest values, and no snapshot with another
\* label is removed or moved.
C18_ReplaceOnReupload == [][OneSnapshotPerLabel' /\ StoreStep]_vars

\* quarterback A's season Y1 was uploaded with 2000 and then with 4000 passing
\* yards, with Y2 in between or after: Y1 is stored once, first, with 4000
C18_Witness ==
    /\ Len(history) = 1
    /\ history[1].playerKey = PlayerKey(QB, <<"A">>)
    /\ Len(history[1].snapshots) = 2
    /\ history[1].snapshots[1].season = "Y1"
    /\ history[1].snapshots[1].passYds = 4000
    /\ history[1].snapshots[2].season = "Y2"
    /\ history[1].snapshots[2].passYds = 2000
    /\ dataVersion = 3

\* the five memoized results are what a computation from the current context
\* and store gives
UpToDate ==
    /\ allTimeRecords = (IF careerData = Null THEN Null ELSE records(careerData))
    /\ advancedMetrics = (IF careerData = Null THEN <<>> ELSE metrics(careerData))
    /\ paceToRecords = (IF careerData = Null THEN <<>> ELSE paceRecords(careerData))
    /\ singleSeasonRecords = singleSeasonRecordsOf(history)
    /\ greatestSeasons = greatestSeasonsOf(history)

Memos == <<allTimeRecords, advancedMetrics, paceToRecords, singleSeasonRecords, greatestSeasons>>

\* the first memo last ran at the current career data and data version
RenderedAtVersion == Rendered /\ memoDeps.first = <<careerData, dataVersion>>

\* C19: whenever the view has rendered since the last upload, the five results
\* equal a computation from the current career data and history store,
\* whatever uploads came before; and from then on the results do not change
\* in a step that changes neither dataVersion nor careerData.
C19_RecomputeOnVersionChange ==
    /\ [](RenderedAtVersion => UpToDate)
    /\ [][(RenderedAtVersion /\ dataVersion' = dataVersion /\ careerData' = careerData)
              => Memos' = Memos]_vars

\* rendered after a career upload and two season uploads: the single-season
\* leaderboards, absent at the first render, are present
C19_Witness ==
    /\ Rendered
    /\ dataVersion = 3
    /\ RenderedAtVersion
    /\ careerData # Null
    /\ singleSeasonRecords # Null
    /\ Len(greatestSeasons) = 2

----------------------------------------------------------------------------
(* The six-section records view (RecordsTab.tsx): one record per category *)

\* what an uncaught TypeError leaves in place of a result
Threw == [threw |-> "TypeError"]

\* players.reduce((a, b) => (getValue(a) > getValue(b) ? a : b)) from
\* accumulator a over the elements from index i on; getValue reads field f
RECURSIVE ReduceFrom(_, _, _, _)
ReduceFrom(players, f, a, i) ==
    IF i > Len(players) THEN a
    ELSE ReduceFrom(players, f, IF a[f] > players[i][f] THEN a ELSE players[i], i + 1)

\* reduce without an initial value: a TypeError on an empty array
ReduceMax(players, f) ==
    IF Len(players) = 0 THEN Threw ELSE ReduceFrom(players, f, players[1], 2)

\* the first of the players at the largest value named, not the last
findMax_firstTied(players, f, stat) ==
    IF Len(players) = 0 THEN Null
    ELSE LET top == {i \in 1..Len(players) : \A j \in 1..Len(players) : players[j][f] <= players[i][f]}
             max == players[CHOOSE i \in top : \A j \in top : i <= j]
         IN  [stat |-> stat, value |-> max[f], playerName |-> max.name,
              team |-> max.team, position |-> max.position]

\* findMax(players, getValue, stat)
findMax(players, f, stat) ==
    IF Len(players) = 0 THEN Null
    ELSE LET max == ReduceMax(players, f)
         IN  [stat |-> stat, value |-> max[f], playerName |-> max.name,
              team |-> max.team, position |-> max.position]

\* the categories of each section: the field read and the stat's title
QBCategories ==
    << <<"passYds", "Career Passing Yards">>, <<"passTD", "Career Passing Touchdowns">>,
       <<"completions", "Career Completions">>, <<"games", "Games Started (QB)">>,
       <<"rushYds", "QB Career Rush Yards">>, <<"rushTD", "QB Career Rush TDs">> >>
RBCategories ==
    << <<"rushYds", "Career Rushing Yards">>, <<"rushTD", "Career Rushing Touchdowns">>,
       <<"rushAtt", "Career Rush Attempts">>, <<"recYds", "RB Career Receiving Yards">>,
       <<"recTD", "RB Career Receiving TDs">>, <<"games", "Games Started (RB)">> >>
WRCategories ==
    << <<"recYds", "Career Receiving Yards">>, <<"receptions", "Career Receptions">>,
       <<"recTD", "Career Receiving TDs">>, <<"longest", "Longest Reception">>,
       <<"games", "Games Started (WR)">> >>
TECategories ==
    << <<"recYds", "TE Career Receiving Yards">>, <<"receptions", "TE Career Receptions">>,
       <<"recTD", "TE Career Receiving TDs">>, <<"games", "Games Started (TE)">> >>
DefCategories ==
    << <<"tackles", "Career Tackles">>, <<"interceptions", "Career Interceptions (DEF)">>,
       <<"sacks", "Career Sacks">>, <<"forcedFumbles", "Career Forced Fumbles">>,
       <<"games", "Games Started (DEF)">> >>
AccoladeCategories ==
    << <<"rings", "Career Championships">>, <<"mvp", "Career MVP Awards">>,
       <<"sbmvp", "Super Bowl MVP Awards">>, <<"games", "All-Time Games Played">>,
       <<"careerLegacy", "Highest Career Legacy">>, <<"trueTalent", "Highest True Talent">>,
       <<"dominance", "Highest Dominance">>, <<"tpg", "Highest TPG (Talent Per Game)">> >>

\* if (players.length > 0) { [findMax(...), ...].forEach((r) => r && list.push(r)) }
RecordsSection(players, categories) ==
    IF Len(players) > 0
    THEN LET found == [i \in 1..Len(categories) |->
                          findMax(players, categories[i][1], categories[i][2])]
         IN  FilterIdx(found, {i \in 1..Len(found) : found[i] # Null}, 1)
    ELSE <<>>

\* the records memo of the six-section view
recordsOf(cd) ==
    IF cd = Null THEN Null
    ELSE [qbRecords       |-> RecordsSection(cd.quarterbacks, QBCategories),
          rbRecords       |-> RecordsSection(cd.runningbacks, RBCategories),
          wrRecords       |-> RecordsSection(cd.widereceivers, WRCategories),
          teRecords       |-> RecordsSection(cd.tightends, TECategories),
          defRecords      |-> RecordsSection(allDefOf(cd), DefCategories),
          accoladeRecords |-> RecordsSection(allPlayersOf(cd), AccoladeCategories)]

Sections == {"qbRecords", "rbRecords", "wrRecords", "teRecords", "defRecords", "accoladeRecords"}

RecordsViewRender ==
    /\ recordsView = NotComputed
    /\ call = Null
    /\ recordsView' = recordsOf(careerData)
    /\ UNCHANGED <<careerData, history, allTimeRecords, advancedMetrics, paceToRecords,
                   singleSeasonRecords, greatestSeasons, call, ret, league,
                   performances, commentary>>

----------------------------------------------------------------------------
(* SeasonTab: the season's performances against the career players *)

Groups == <<"QB", "RB", "WR", "TE", "DEF">>

\* getPrimaryStat
PrimaryStat(g) ==
    CASE g = "QB" -> "passYds" [] g = "RB" -> "rushYds" [] g = "WR" -> "recYds"
      [] g = "TE" -> "recYds" [] g = "DEF" -> "tackles"

Thresholds(g) ==
    CASE g = "QB"  -> [legendary |-> 4500, great |-> 3500, good |-> 2500, average |-> 1500]
      [] g = "RB"  -> [legendary |-> 1500, great |-> 1000, good |-> 700, average |-> 400]
      [] g = "WR"  -> [legendary |-> 1400, great |-> 1000, good |-> 700, average |-> 400]
      [] g = "TE"  -> [legendary |-> 1000, great |-> 700, good |-> 500, average |-> 300]
      [] g = "DEF" -> [legendary |-> 100, great |-> 70, good |-> 50, average |-> 30]

\* getKeyStats: label and field of each of the three stats
KeyStats(g) ==
    CASE g = "QB" -> << <<"Pass Yds", "passYds">>, <<"Pass TDs", "passTD">>, <<"Rush Yds", "rushYds">> >>
      [] g = "RB" -> << <<"Rush Yds", "rushYds">>, <<"Rush TDs", "rushTD">>, <<"Rec Yds", "recYds">> >>
      [] g \in {"WR", "TE"} ->
            << <<"Rec Yds", "recYds">>, <<"Receptions", "receptions">>, <<"TDs", "recTD">> >>
      [] g = "DEF" -> << <<"Tackles", "tackles">>, <<"INTs", "interceptions">>, <<"Sacks", "sacks">> >>

\* the season and career collections a group compares; defence is LB, DB, DL
GroupPlayers(d, g) ==
    CASE g = "QB" -> d.quarterbacks [] g = "RB" -> d.runningbacks
      [] g = "WR" -> d.widereceivers [] g = "TE" -> d.tightends
      [] g = "DEF" -> allDefOf(d)

\* players.find((c) => c.name === name): the first such player, or undefined
FindByName(players, name) ==
    IF \E i \in 1..Len(players) : players[i].name = name
    THEN players[CHOOSE i \in 1..Len(players) :
                    /\ players[i].name = name
                    /\ \A j \in 1..(i - 1) : players[j].name # name]
    ELSE Null

\* thresholds that a stat must exceed
SeasonTierOf_exclusive(primaryStat, thresholds) ==
    IF primaryStat > thresholds.legendary THEN "legendary"
    ELSE IF primaryStat > thresholds.great THEN "great"
    ELSE IF primaryStat > thresholds.good THEN "good"
    ELSE IF primaryStat > thresholds.average THEN "average"
    ELSE "poor"

SeasonTierOf(primaryStat, thresholds) ==
    IF primaryStat >= thresholds.legendary THEN "legendary"
    ELSE IF primaryStat >= thresholds.great THEN "great"
    ELSE IF primaryStat >= thresholds.good THEN "good"
    ELSE IF primaryStat >= thresholds.average THEN "average"
    ELSE "poor"

tierOrder == [legendary |-> 0, great |-> 1, good |-> 2, average |-> 3, poor |-> 4]

\* generateSummary: the sentence chosen by the tier, with the first key stat's
\* value and lower-cased label filled in
generateSummary(tier, stats) ==
    IF Len(stats) = 0 THEN [sentence |-> "none"]
    ELSE [sentence |-> tier, value |-> stats[1].value, label |-> stats[1].label]

\* one element of the map in getPerformances
Performance(sp, careerPlayers, g) ==
    LET careerPlayer == FindByName(careerPlayers, sp.name)
        tier == SeasonTierOf(sp[PrimaryStat(g)], Thresholds(g))
        keyStats == [i \in 1..Len(KeyStats(g)) |->
                        [label |-> KeyStats(g)[i][1], value |-> sp[KeyStats(g)[i][2]]]]
    IN  [player |-> IF careerPlayer # Null THEN careerPlayer ELSE sp,
         seasonStats |-> sp, tier |-> tier,
         summary |-> generateSummary(tier, keyStats), keyStats |-> keyStats]

getPerformances(seasonPlayers, careerPlayers, g) ==
    LET played == FilterIdx(seasonPlayers,
                            {i \in 1..Len(seasonPlayers) : seasonPlayers[i][PrimaryStat(g)] > 0}, 1)
        mapped == [i \in 1..Len(played) |-> Performance(played[i], careerPlayers, g)]
        sorted == SortAsc([i \in 1..Len(mapped) |->
                              [key |-> Num(tierOrder[mapped[i].tier]), item |-> mapped[i]]])
    IN  [i \in 1..Len(sorted) |-> sorted[i].item]

RECURSIVE allPerformances(_, _, _)
allPerformances(sd, cd, i) ==
    IF i > Len(Groups) THEN <<>>
    ELSE getPerformances(GroupPlayers(sd, Groups[i]), GroupPlayers(cd, Groups[i]), Groups[i])
         \o allPerformances(sd, cd, i + 1)

\* the performances memo
performancesOf(sd, cd) ==
    IF sd = Null \/ cd = Null THEN <<>> ELSE allPerformances(sd, cd, 1)

\* the sort of getPerformances is applied to the array of performances that
\* map returns
SeasonTabRender ==
    /\ performances = NotComputed
    /\ call = Null
    /\ performances' = [allPerformances |-> performancesOf(seasonData, careerData)]
    /\ UNCHANGED <<careerData, history, allTimeRecords, advancedMetrics, paceToRecords,
                   singleSeasonRecords, greatestSeasons, call, ret, league,
                   recordsView, commentary>>

----------------------------------------------------------------------------
(* CommentaryTab: league counts, top lists and the season's stories *)

\* [...players].sort((a, b) => b[f] - a[f]).slice(0, 5)
TopBy(players, f) ==
    LET sorted == SortDesc([i \in 1..Len(players) |-> [key |-> Num(players[i][f]), item |-> players[i]]])
        kept   == Slice0(sorted, 5)
    IN  [i \in 1..Len(kept) |-> kept[i].item]

Where(players, keep(_)) == FilterIdx(players, {i \in 1..Len(players) : keep(players[i])}, 1)

\* players.reduce((a, b) => (a[f] > b[f] ? a : b), players[0]): undefined for
\* an empty array
Standout(players, f) ==
    IF Len(players) = 0 THEN Null ELSE ReduceFrom(players, f, players[1], 1)

\* a standout is taken to exist without looking
HasStandout_unchecked(standout) == TRUE

\* `standout &&`
HasStandout(standout) == standout # Null

\* the three positional stories: collection, stat, legendary threshold, the
\* tier of a season below it, the career total quoted
StoryKinds ==
    << [array |-> "quarterbacks", stat |-> "passYds", legendary |-> 4500, other |-> "breaking"],
       [array |-> "runningbacks", stat |-> "rushYds", legendary |-> 1500, other |-> "notable"],
       [array |-> "widereceivers", stat |-> "recYds", legendary |-> 1400, other |-> "notable"] >>

\* reading a property of undefined: the guard let an absent standout through
PositionThrows(sd, k) ==
    LET standout == Standout(sd[k.array], k.stat)
    IN  HasStandout(standout) /\ standout = Null

\* the stories pushed for one position: none or one
PositionStory(sd, cd, k) ==
    LET standout == Standout(sd[k.array], k.stat)
    IN  IF ~HasStandout(standout) \/ PositionThrows(sd, k) THEN <<>>
        ELSE IF ~(standout[k.stat] > 0) THEN <<>>
        ELSE LET isLegendary == standout[k.stat] >= k.legendary
                 career == FindByName(cd[k.array], standout.name)
             IN  << [headline |-> <<k.stat, isLegendary, standout.name>>,
                     body     |-> [name |-> standout.name, season |-> standout[k.stat],
                                   career |-> IF career # Null THEN <<career[k.stat]>> ELSE <<>>],
                     player   |-> IF career # Null THEN career ELSE standout,
                     tier     |-> IF isLegendary THEN "legendary" ELSE k.other] >>

\* seasonStories.unshift({headline: 'Championship Glory', ...}) when any season
\* player has rings > 0
ChampionStory(allSeasonPlayers) ==
    LET newChamps == Where(allSeasonPlayers, LAMBDA q : q.rings > 0)
    IN  IF Len(newChamps) > 0
        THEN << [headline |-> <<"Championship Glory">>,
                 body     |-> [names |-> [i \in 1..Len(newChamps) |-> newChamps[i].name]],
                 tier     |-> "legendary"] >>
        ELSE <<>>

\* seasonStories.unshift({headline: `${...} Wins MVP`, ...}) for the first
\* season player with mvp > 0
MVPStory(allSeasonPlayers, allPlayers) ==
    LET newMVPs == Where(allSeasonPlayers, LAMBDA q : q.mvp > 0)
    IN  IF Len(newMVPs) > 0
        THEN LET mvp == newMVPs[1]
                 careerMVP == FindByName(allPlayers, mvp.name)
             IN  << [headline |-> <<"Wins MVP", mvp.name>>,
                     body     |-> [name |-> mvp.name,
                                   awards |-> IF careerMVP # Null
                                              THEN IF careerMVP.mvp > 1 THEN <<careerMVP.mvp>> ELSE <<>>
                                              ELSE <<>>],
                     player   |-> IF careerMVP # Null THEN careerMVP ELSE mvp,
                     tier     |-> "legendary"] >>
        ELSE <<>>

\* the championship and MVP stories pushed at the end instead of unshifted
seasonStoriesOf_pushed(sd, cd) ==
    IF sd = Null THEN <<>>
    ELSE PositionStory(sd, cd, StoryKinds[1]) \o PositionStory(sd, cd, StoryKinds[2])
         \o PositionStory(sd, cd, StoryKinds[3]) \o ChampionStory(allPlayersOf(sd))
         \o MVPStory(allPlayersOf(sd), allPlayersOf(cd))

seasonStoriesOf(sd, cd) ==
    IF sd = Null THEN <<>>
    ELSE MVPStory(allPlayersOf(sd), allPlayersOf(cd)) \o ChampionStory(allPlayersOf(sd))
         \o PositionStory(sd, cd, StoryKinds[1]) \o PositionStory(sd, cd, StoryKinds[2])
         \o PositionStory(sd, cd, StoryKinds[3])

\* the commentary memo, or the TypeError that ended it
commentaryOf(sd, cd) ==
    IF cd = Null THEN Null
    ELSE IF sd # Null /\ \E i \in 1..Len(StoryKinds) : PositionThrows(sd, StoryKinds[i]) THEN Threw
    ELSE LET allPlayers == allPlayersOf(cd)
             activePlayers == Where(allPlayers, LAMBDA q : q.status = "Active")
         IN  [totalPlayers   |-> Len(allPlayers),
              activePlayers  |-> Len(activePlayers),
              hofCount       |-> Len(Where(allPlayers, LAMBDA q : q.careerLegacy >= 5000)),
              legendaryCount |-> Len(Where(allPlayers, LAMBDA q : q.careerLegacy >= 8000)),
              topByLegacy    |-> TopBy(allPlayers, "careerLegacy"),
              topByTPG       |-> TopBy(activePlayers, "tpg"),
              topByRings     |-> TopBy(allPlayers, "rings"),
              topByMVP       |-> TopBy(Where(allPlayers, LAMBDA q : q.mvp > 0), "mvp"),
              seasonStories  |-> seasonStoriesOf(sd, cd)]

\* every sort of the commentary memo is applied to a spread copy of allPlayers
\* or activePlayers, themselves new arrays
CommentaryTabRender ==
    /\ commentary = NotComputed
    /\ call = Null
    /\ commentary' = commentaryOf(seasonData, careerData)
    /\ UNCHANGED <<careerData, history, allTimeRecords, advancedMetrics, paceToRecords,
                   singleSeasonRecords, greatestSeasons, call, ret, league,
                   recordsView, performances>>

----------------------------------------------------------------------------
(* Bounded inputs: the four views over small and degenerate leagues *)

\* career collections: up to MaxPlayers quarterbacks with growing totals, and
\* at most one player of other positions, all sharing the name of the first
TabCareerOf(k, rb, wr, lb, db) ==
    [EmptyCareer EXCEPT
        !.quarterbacks = [i \in 1..k |->
            QBPlayer(PlayerNames[i], "Active", 16 * i, 3000 * i, 20 * i, 400 * i, 250 * i, 10)],
        !.runningbacks = IF rb THEN <<RBPlayer(PlayerNames[1], "Active", 32, 2000, 500, 300)>> ELSE <<>>,
        !.widereceivers = IF wr THEN <<WRPlayer(PlayerNames[1], "WR", "Retired", 48, 3000, 20, 200)>> ELSE <<>>,
        !.linebackers = IF lb THEN <<DefPlayer(PlayerNames[1], "LB", "Active", 40, 300, 10, 2, 0)>> ELSE <<>>,
        !.defensivebacks = IF db THEN <<DefPlayer(PlayerNames[1], "DB", "Active", 40, 150, 0, 9, 0)>> ELSE <<>>]

\* season collections: a quarterback with a big or an empty season, a running
\* back who is the season's MVP, a defensive back with a ring
TabSeasonOf(qbYds, rb, db) ==
    [EmptyCareer EXCEPT
        !.quarterbacks = IF qbYds < 0 THEN <<>>
                         ELSE <<QBPlayer(PlayerNames[1], "Active", 16, qbYds, 30, 500, 300, 10)>>,
        !.runningbacks = IF rb THEN <<[RBPlayer(PlayerNames[1], "Active", 16, 1200, 250, 100)
                                       EXCEPT !.mvp = 1]>> ELSE <<>>,
        !.defensivebacks = IF db THEN <<[DefPlayer(PlayerNames[1], "DB", "Active", 16, 50, 0, 3, 0)
                                         EXCEPT !.rings = 1]>> ELSE <<>>]

\* an empty store, a player with one season, a player with two
TabHistories ==
    {<<>>,
     HistoryOf(<< <<LevelSnapshot("Y1", 1)>>, <<>>, <<>> >>),
     HistoryOf(<< <<LevelSnapshot("Y1", 1), LevelSnapshot("Y2", 2)>>, <<>>, <<>> >>)}

InitTabs ==
    \E h \in TabHistories :
        /\ \/ careerData = Null
           \/ \E k \in 0..MaxPlayers, rb, wr, lb, db \in BOOLEAN :
                 careerData = TabCareerOf(k, rb, wr, lb, db)
        /\ \/ seasonData = Null
           \/ \E qbYds \in {-1, 0, 4600}, rb, db \in BOOLEAN :
                 seasonData = TabSeasonOf(qbYds, rb, db)
        /\ history = h
        /\ allTimeRecords = NotComputed
        /\ advancedMetrics = NotComputed
        /\ paceToRecords = NotComputed
        /\ singleSeasonRecords = NotComputed
        /\ greatestSeasons = NotComputed
        /\ call = Null
        /\ ret = Null
        /\ dataVersion = 0
        /\ memoDeps = NotComputed
        /\ recordsView = NotComputed
        /\ performances = NotComputed
        /\ commentary = NotComputed

NextTabs == RecordsTabRender \/ RecordsViewRender \/ SeasonTabRender \/ CommentaryTabRender

SpecTabs == InitTabs /\ [][NextTabs]_vars

----------------------------------------------------------------------------
(* The views on their inputs: frame, degenerate inputs, records, identity *)

\* C13: no computation of a view changes its inputs: in every step the career
\* collections, the season collections and the history store are, element
\* for element and in order, what they were before the step.
C13_InputsUnchanged ==
    [][careerData' = careerData /\ seasonData' = seasonData /\ history' = history]_vars

\* the passing leaderboard ranks the second quarterback of the collection
\* first, the collection is still in its own order, and every view has rendered
C13_Witness ==
    /\ Rendered
    /\ careerData # Null
    /\ Len(careerData.quarterbacks) = 2
    /\ careerData.quarterbacks[1].passYds < careerData.quarterbacks[2].passYds
    /\ BoardEntries("qbPassYds")[1].playerName = careerData.quarterbacks[2].name
    /\ recordsView # NotComputed
    /\ performances # NotComputed
    /\ commentary # NotComputed

ViewSection(section) == IF recordsView \in {NotComputed, Null} THEN <<>> ELSE recordsView[section]

SectionPlayers(cd, section) ==
    CASE section = "qbRecords" -> cd.quarterbacks [] section = "rbRecords" -> cd.runningbacks
      [] section = "wrRecords" -> cd.widereceivers [] section = "teRecords" -> cd.tightends
      [] section = "defRecords" -> allDefOf(cd) [] section = "accoladeRecords" -> allPlayersOf(cd)

Stories == IF commentary \in {NotComputed, Null, Threw} THEN <<>> ELSE commentary.seasonStories

\* the positional story about stat f, if the commentary holds one
HasStory(f) == \E i \in 1..Len(Stories) : Stories[i].headline[1] = f

\* C14: with any of the collections empty, career or season data absent, and
\* a store that is empty or holds one snapshot per player, no view ends in an
\* error, and what has no qualifying player is absent while the rest is
\* produced: a leaderboard is null exactly when no player of its collection
\* has a positive value, a metric is omitted exactly when no player passes its
\* filter, the single-season leaderboards are null without a player of several
\* seasons, a section of the six-section view is empty exactly when its
\* collection is, and a positional story is missing exactly when the season
\* collection is empty or its standout's stat is 0.
C14_DegenerateInputs ==
    /\ recordsView # Threw
    /\ commentary # Threw
    /\ (Rendered /\ careerData = Null) =>
          allTimeRecords = Null /\ advancedMetrics = <<>> /\ paceToRecords = <<>>
    /\ (Rendered /\ careerData # Null) =>
          /\ \A b \in CareerBoards :
                (allTimeRecords[b] = Null) <=>
                    ~\E q \in Elems(BoardPlayers(careerData, b)) : CareerValue(b, q).n > 0
          /\ \A m \in Elems(MetricNames) :
                HasMetric(m) <=> \E q \in Elems(MetricPlayers(careerData, m)) : MetricEligible(m, q)
    /\ Rendered =>
          /\ (singleSeasonRecords = Null) <=> ~\E h \in Elems(history) : Len(h.snapshots) > 1
          /\ (greatestSeasons = <<>>) <=> ~\E h \in Elems(history) : Len(h.snapshots) > 1
    /\ (recordsView # NotComputed) =>
          /\ (recordsView = Null) <=> (careerData = Null)
          /\ careerData # Null =>
                \A section \in Sections :
                    (ViewSection(section) = <<>>) <=> (SectionPlayers(careerData, section) = <<>>)
    /\ (commentary # NotComputed) =>
          /\ (commentary = Null) <=> (careerData = Null)
          /\ (careerData # Null /\ seasonData = Null) => Stories = <<>>
          /\ (careerData # Null /\ seasonData # Null) =>
                \A i \in 1..Len(StoryKinds) :
                    HasStory(StoryKinds[i].stat) <=>
                        \E q \in Elems(seasonData[StoryKinds[i].array]) : q[StoryKinds[i].stat] > 0

\* every career and season collection is empty and so is the store: all four
\* views have rendered, with nothing to report
C14_Witness ==
    /\ careerData = EmptyCareer
    /\ seasonData = EmptyCareer
    /\ history = <<>>
    /\ Rendered
    /\ \A b \in CareerBoards : allTimeRecords[b] = Null
    /\ recordsView \notin {NotComputed, Null}
    /\ \A section \in Sections : recordsView[section] = <<>>
    /\ commentary \notin {NotComputed, Null}
    /\ commentary.seasonStories = <<>>
    /\ commentary.totalPlayers = 0
    /\ performances # NotComputed

\* C15 as stated: every entry of the six-section records view has a value
\* that is strictly positive.
C15_PositiveRecords ==
    \A section \in Sections :
        \A i \in 1..Len(ViewSection(section)) : ViewSection(section)[i].value > 0

Performances == IF performances = NotComputed THEN <<>> ELSE performances.allPerformances

\* the season row a story with a player is about: the first season player
\* with an MVP award, or the position's standout
StoryRow(story) ==
    IF story.headline[1] = "Wins MVP"
    THEN Where(allPlayersOf(seasonData), LAMBDA q : q.mvp > 0)[1]
    ELSE LET k == CHOOSE kind \in Elems(StoryKinds) : kind.stat = story.headline[1]
         IN  Standout(seasonData[k.array], k.stat)

\* C16 as stated: the player shown with a season row, in a performance or in a
\* standout or MVP story, has the row's name and the row's position.
C16_SameNameAndPosition ==
    /\ \A i \in 1..Len(Performances) :
          /\ Performances[i].player.name = Performances[i].seasonStats.name
          /\ Performances[i].player.position = Performances[i].seasonStats.position
    /\ \A i \in 1..Len(Stories) :
          "player" \in DOMAIN Stories[i] =>
              /\ Stories[i].player.name = StoryRow(Stories[i]).name
              /\ Stories[i].player.position = StoryRow(Stories[i]).position

----------------------------------------------------------------------------
(* Ties in the career leaderboards *)

\* where the player named `name` stands in the collection passed to findTopN
InputIndex(name) == CHOOSE i \in 1..Len(call.players) : call.players[i].name = name

\* C21: in a findTopN result two entries with equal values stand in the order
\* their players have in the input collection, entries with equal values are
\* next to each other, and a positive candidate left out with the value of a
\* kept entry comes after that entry's player in the input collection.
C21_TiesKeepInputOrder ==
    (TopNReturned /\ call.fn = "findTopN") =>
        /\ \A i, j \in 1..Len(ResultEntries) :
              (i < j /\ ResultEntries[i].value = ResultEntries[j].value) =>
                  /\ InputIndex(ResultEntries[i].playerName) < InputIndex(ResultEntries[j].playerName)
                  /\ \A k \in i..j : ResultEntries[k].value = ResultEntries[i].value
        /\ \A c \in PositiveCandidates :
              (\A i \in 1..Len(ResultEntries) : EntryId(ResultEntries[i]) # c.id) =>
                  \A i \in 1..Len(ResultEntries) :
                      ResultEntries[i].value = c.value =>
                          InputIndex(ResultEntries[i].playerName) < InputIndex(c.id[1])

\* two quarterbacks tied in passing yards and a single place: the first of the
\* collection takes it
C21_Witness ==
    /\ TopNReturned
    /\ call.fn = "findTopN"
    /\ call.getValue = "qbPassYds"
    /\ call.n = 1
    /\ Len(call.players) = 2
    /\ call.players[1].passYds = call.players[2].passYds
    /\ call.players[1].passYds > 0
    /\ Len(ResultEntries) = 1
    /\ ResultEntries[1].playerName = call.players[1].name

----------------------------------------------------------------------------
(* What every emitted pace record satisfies *)

\* C22: every emitted PaceRecord has 1 <= seasonsToBreak <= 5, a positive
\* pace, 0 < currentValue < recordValue, percentToRecord equal to
\* currentValue / recordValue * 100 and so strictly between 0 and 100, a
\* recordValue that is the largest total of any player of the category,
\* active or not, and a recordHolder who is a player of the category with that
\* total and is not the emitted player.
C22_PaceRecordShape ==
    (Rendered /\ careerData # Null) =>
        \A i \in 1..Len(paceToRecords) :
            LET e == paceToRecords[i]
            IN  /\ e.seasonsToBreak \in 1..5
                /\ e.pacePerSeason.n > 0
                /\ 0 < e.currentValue /\ e.currentValue < e.recordValue
                /\ e.percentToRecord.n * e.recordValue = e.percentToRecord.d * 100 * e.currentValue
                /\ e.percentToRecord.n > 0
                /\ e.percentToRecord.n < 100 * e.percentToRecord.d
                /\ e.recordValue = CategoryRecord(e.position)
                /\ \E h \in Elems(CategoryPlayers(e.position)) :
                      h.name = e.recordHolder /\ CategoryTotal(e.position, h) = e.recordValue
                /\ e.recordHolder # e.playerName

\* an active player at 600 behind a retired holder at 700 is one season away,
\* at 600 / 700 of the record
C22_Witness ==
    /\ Rendered
    /\ careerData # Null
    /\ \E i \in 1..Len(paceToRecords) :
          LET e == paceToRecords[i]
          IN  /\ e.currentValue = 600
              /\ e.recordValue = 700
              /\ e.seasonsToBreak = 1
              /\ e.percentToRecord = Rat(600, 7)
              /\ \E h \in Elems(CategoryPlayers(e.position)) :
                    h.name = e.recordHolder /\ h.status = "Retired"

----------------------------------------------------------------------------
(* What every reported best-in-class metric satisfies *)

\* the numerator each best-in-class metric divides
MetricNumerator(m, p) ==
    CASE m = "Best Yards/Attempt" -> p.passYds
      [] m = "Best TD/INT Ratio"  -> p.passTD
      [] m = "Completion %"       -> p.completions
      [] m = "Best Yards/Carry"   -> p.rushYds
      [] m = "Scrimmage Yds/Game" -> p.rushYds + p.recYds
      [] m = "Best Yards/Catch"   -> p.recYds
      [] m = "Receiving Yds/Game" -> p.recYds
      [] m = "Sacks/Game"         -> p.sacks
      [] m = "Turnovers/Game"     -> p.interceptions + p.forcedFumbles

\* the players a metric's filter lets through
PassesFilter(m, p) ==
    IF m = "Best TD/INT Ratio" THEN MetricDenominator(m, p) > 0
    ELSE MetricDenominator(m, p) > MetricMinimum(m)

\* a / b <= c / d for positive b and d
RatioLeq(a, b, c, d) == a * d <= c * b

\* C23: every reported best-in-class metric has a finite, non-negative value
\* computed with a strictly positive denominator, and the reported player
\* attains the largest ratio among the players that pass the metric's filter.
C23_MetricLeader ==
    (Rendered /\ careerData # Null) =>
        \A i \in 1..Len(advancedMetrics) :
            LET e == advancedMetrics[i]
                m == e.name
                scale == IF m = "Completion %" THEN 100 ELSE 1
            IN  \E p \in Elems(MetricPlayers(careerData, m)) :
                    /\ p.name = e.playerName
                    /\ PassesFilter(m, p)
                    /\ MetricDenominator(m, p) > 0
                    /\ e.value.d > 0
                    /\ e.value.n >= 0
                    /\ e.value.n * MetricDenominator(m, p) = e.value.d * scale * MetricNumerator(m, p)
                    /\ \A q \in Elems(MetricPlayers(careerData, m)) :
                          PassesFilter(m, q) =>
                              RatioLeq(MetricNumerator(m, q), MetricDenominator(m, q),
                                       MetricNumerator(m, p), MetricDenominator(m, p))

\* two quarterbacks pass the attempts filter with different yards per attempt
\* and the second one in the collection is reported
C23_Witness ==
    /\ Rendered
    /\ careerData # Null
    /\ Len(careerData.quarterbacks) = 2
    /\ \A p \in Elems(careerData.quarterbacks) : p.attempts > 200
    /\ careerData.quarterbacks[1].passYds < careerData.quarterbacks[2].passYds
    /\ \E i \in 1..Len(advancedMetrics) :
          /\ advancedMetrics[i].name = "Best Yards/Attempt"
          /\ advancedMetrics[i].playerName = careerData.quarterbacks[2].name
          /\ advancedMetrics[i].value = Rat(1600, 201)

----------------------------------------------------------------------------
(* Player keys parsed back into position and name *)

\* the longest name of a generated key
MaxKeyName == 3

\* position strings without ':': the eight positions, the empty string, a
\* one-letter string, a longer one and a differently-cased one
KeyPositions ==
    {QB, RB, WR, TE, OL, LB, DB, DL, <<>>, <<"Q">>, <<"Q", "B", "X">>, <<"q", "b">>}

\* the names of at most n characters over a letter and ':'
KeyNames(n) == UNION {[1..k -> {"A", Colon}] : k \in 0..n}

\* one player stored under position + ':' + name with two seasons, every stat
\* positive, next to an offensive lineman with two seasons
KeyHistory(position, name, v) ==
    <<[playerKey |-> PlayerKey(position, name),
       snapshots |-> <<LevelSnapshot("Y1", v), LevelSnapshot("Y2", 3 - v)>>],
      [playerKey |-> PlayerKey(OL, <<"Z">>),
       snapshots |-> <<LevelSnapshot("Y1", 2), LevelSnapshot("Y2", 1)>>]>>

InitKeys ==
    \E position \in KeyPositions, name \in KeyNames(MaxKeyName), v \in {1, 2} :
        Mounted(Null, KeyHistory(position, name, v))

\* the records view rendered over a history keyed by a drawn position and name
SpecKeys == InitKeys /\ [][NextRender]_vars

\* the positions of each single-season leaderboard's group
GroupPositions(b) ==
    CASE b \in {"qbPassYds", "qbPassTD", "qbTotalTD"}    -> {QB}
      [] b \in {"rbRushYds", "rbRushTD", "rbScrimmage"}  -> {RB}
      [] b \in {"wrRecYds", "wrRecTD"}                   -> {WR}
      [] b = "teRecYds"                                  -> {TE}
      [] b \in {"defTackles", "defSacks", "defINT"}      -> {LB, DB, DL}

\* C24: a key position + ':' + name, for a position without ':' and any name
\* (also one with ':' in it, also the empty one), parses back into exactly that
\* position and that name; a single-season leaderboard's filter selects the key
\* iff the position is of the leaderboard's group, so every entry of a
\* leaderboard carries a position of its group and the name of its player, and
\* an offensive lineman is on no single-season leaderboard.
C24_KeyRoundTrip ==
    /\ \A position \in KeyPositions, name \in KeyNames(MaxKeyName) :
          \A i \in 1..Len(history) :
              history[i].playerKey = position \o <<":">> \o name =>
                  /\ KeyPosition(history[i].playerKey) = position
                  /\ KeyName(history[i].playerKey) = name
                  /\ \A b \in SeasonBoards :
                        SeasonFilter(b, history[i].playerKey) <=> position \in GroupPositions(b)
                  /\ Rendered =>
                        \A b \in SeasonBoards :
                           /\ position \in GroupPositions(b) =>
                                 /\ Len(SeasonBoardEntries(b)) = Len(history[i].snapshots)
                                 /\ \A j \in 1..Len(SeasonBoardEntries(b)) :
                                       /\ SeasonBoardEntries(b)[j].position = position
                                       /\ SeasonBoardEntries(b)[j].playerName = name
                           /\ position \notin GroupPositions(b) => SeasonBoardEntries(b) = <<>>
    /\ Rendered =>
          \A b \in SeasonBoards : \A j \in 1..Len(SeasonBoardEntries(b)) :
              /\ SeasonBoardEntries(b)[j].position \in GroupPositions(b)
              /\ SeasonBoardEntries(b)[j].position # OL

\* a defensive back whose name holds two ':' is listed under that very name,
\* and the lineman stored next to it is not listed
C24_Witness ==
    /\ Rendered
    /\ history[1].playerKey = <<"D", "B", ":", "A", ":", ":">>
    /\ Len(SeasonBoardEntries("defSacks")) = 2
    /\ SeasonBoardEntries("defSacks")[1].playerName = <<"A", ":", ":">>
    /\ SeasonBoardEntries("defSacks")[1].position = DB
    /\ history[2].playerKey = <<"O", "L", ":", "Z">>

----------------------------------------------------------------------------
(* Which scoring variant a position string selects *)

\* tackles * 2 + sacks * 15 + interceptions * 20 + forcedFumbles * 10 + awardBonus
DefensiveFormula(s) ==
    2 * ReadOrZero(s, "tackles") + 15 * ReadOrZero(s, "sacks")
    + 20 * ReadOrZero(s, "interceptions") + 10 * ReadOrZero(s, "forcedFumbles")
    + ReadOrZero(s, "mvp") * 100 + ReadOrZero(s, "opoy") * 75 + ReadOrZero(s, "sbmvp") * 80
    + ReadOrZero(s, "roty") * 50 + ReadOrZero(s, "rings") * 60

\* C25: every position string other than exactly QB, RB, WR and TE - OL, the
\* empty string and the lower-case "qb" included - is scored by the defensive
\* formula; a score below 0 is a quarterback's, whose interceptions * 5 exceeds
\* the other terms, and such a score is classified SOLID.
C25_DefensiveByDefault ==
    Scored =>
        /\ call.position \notin {QB, RB, WR, TE} =>
              ret.score = Num(DefensiveFormula(call.snapshot))
        /\ ret.score.n < 0 =>
              /\ call.position = QB
              /\ 1500 * ReadOrZero(call.snapshot, "interceptions") >
                    Formula300(call.snapshot, QB) + 1500 * ReadOrZero(call.snapshot, "interceptions")
              /\ Classified => ret.tier = "SOLID"

\* a season of 30 interceptions and 130 passing yards scored and classified
\* under the lower-case position "qb": 600 and ELITE, where a quarterback's
\* formula gives a negative score
C25_Witness ==
    /\ Scored
    /\ Classified
    /\ call.position = <<"q", "b">>
    /\ DOMAIN call.snapshot = {"season", "interceptions", "passYds"}
    /\ call.snapshot.interceptions = 30 /\ call.snapshot.passYds = 130
    /\ ret.score = Num(600)
    /\ ret.tier = "ELITE"
    /\ Formula300(call.snapshot, QB) < 0

----------------------------------------------------------------------------
(* The pace projector's record against the career leaderboards *)

\* the career leaderboard of each pace category
PaceBoard(cat) ==
    CASE cat = "QB" -> "qbPassYds"
      [] cat = "RB" -> "rbRushYds"
      [] cat = "WR" -> "wrRecYds"

\* C26: whenever a pace record is emitted for a category, its recordValue and
\* recordHolder are the value and the player name of the first entry of the
\* category's career leaderboard (passing yards of quarterbacks, rushing yards
\* of running backs, receiving yards of receivers), also when several players
\* share the record value.
C26_RecordIsRankOne ==
    (Rendered /\ careerData # Null) =>
        \A i \in 1..Len(paceToRecords) :
            LET e == paceToRecords[i]
                board == BoardEntries(PaceBoard(e.position))
            IN  /\ Len(board) >= 1
                /\ board[1].value = Num(e.recordValue)
                /\ board[1].playerName = e.recordHolder

\* two players share the record of 700, a third is on pace for it, and both the
\* pace record and the leaderboard name the first of the two
C26_Witness ==
    /\ Rendered
    /\ careerData # Null
    /\ \E i \in 1..Len(paceToRecords) :
          LET e == paceToRecords[i]
              ps == CategoryPlayers(e.position)
          IN  /\ Len(ps) = 3
              /\ CategoryTotal(e.position, ps[1]) = 700
              /\ CategoryTotal(e.position, ps[2]) = 700
              /\ e.playerName = ps[3].name
              /\ e.recordHolder = ps[1].name
              /\ BoardEntries(PaceBoard(e.position))[1].playerName = ps[1].name
              /\ BoardEntries(PaceBoard(e.position))[2].playerName = ps[2].name

----------------------------------------------------------------------------
(* SeasonTab: when a season upload is offered *)

\* the tab with the early return dropped: the upload is offered with or
\* without career data
SeasonTabView_ungated(cd, sd) ==
    LET hasSeasonData == Len(performancesOf(sd, cd)) > 0
    IN  [prompt |-> FALSE,
         uploads |-> (IF ~hasSeasonData THEN <<"Upload Next Season CSV">> ELSE <<>>)
                     \o (IF hasSeasonData THEN <<"Upload Next Season">> ELSE <<>>)]

\* what SeasonTab returns: if (!careerData) the prompt alone; otherwise the
\* FileUpload controls, by label, that the two conditionals on hasSeasonData mount
SeasonTabView(cd, sd) ==
    IF cd = Null THEN [prompt |-> TRUE, uploads |-> <<>>]
    ELSE LET hasSeasonData == Len(performancesOf(sd, cd)) > 0
         IN  [prompt |-> FALSE,
              uploads |-> (IF ~hasSeasonData THEN <<"Upload Next Season CSV">> ELSE <<>>)
                          \o (IF hasSeasonData THEN <<"Upload Next Season">> ELSE <<>>)]

\* the user drops a file on a mounted FileUpload: onFileLoad={handleFileLoad}
SeasonTabUpload(filename, content) ==
    /\ Len(SeasonTabView(careerData, seasonData).uploads) >= 1
    /\ LET invoked == handleFileLoad(content, filename)[1]
       IN  LoadSeasonData(invoked.content, invoked.seasonName)

\* the files dropped: a season whose quarterback did not play, one with a big
\* quarterback season, one of a running back and a defensive back
GatingSeasons ==
    {TabSeasonOf(0, FALSE, FALSE), TabSeasonOf(4600, FALSE, FALSE), TabSeasonOf(-1, TRUE, TRUE)}
GatingFilenames == {<<"y", "1">>, <<"Y", "2">>, <<"s">>}
GatingCareers == {TabCareerOf(1, TRUE, FALSE, FALSE, TRUE), TabCareerOf(2, FALSE, FALSE, FALSE, FALSE)}

InitGating == Mounted(Null, <<>>)

NextGating ==
    \/ \E cd \in GatingCareers : LoadCareerData(cd)
    \/ \E filename \in GatingFilenames, content \in GatingSeasons : SeasonTabUpload(filename, content)

\* career uploads made elsewhere and season uploads made through SeasonTab
SpecGating == InitGating /\ [][NextGating]_vars

\* C27: in every state either careerData is absent and SeasonTab offers no
\* upload control, only the prompt to upload career data first, or careerData
\* is present and exactly one upload control is offered - the primary one when
\* there are no performances, "Upload Next Season" when there are; hence
\* loadSeasonData is never invoked before career data has been loaded.
C27_UploadGating ==
    /\ [](LET view == SeasonTabView(careerData, seasonData)
          IN  \/ /\ careerData = Null
                 /\ view.prompt
                 /\ view.uploads = <<>>
              \/ /\ careerData # Null
                 /\ ~view.prompt
                 /\ Len(view.uploads) = 1
                 /\ view.uploads[1] = IF Len(performancesOf(seasonData, careerData)) = 0
                                      THEN "Upload Next Season CSV"
                                      ELSE "Upload Next Season")
    /\ [](seasonData # Null => careerData # Null)
    /\ [][(seasonData' # seasonData \/ history' # history) => careerData # Null]_vars

\* a third upload is on offer under "Upload Next Season" after career data and
\* a season with performances have been loaded
C27_Witness ==
    /\ careerData # Null
    /\ seasonData # Null
    /\ dataVersion = 2
    /\ Len(history) >= 1
    /\ Len(performancesOf(seasonData, careerData)) > 0
    /\ SeasonTabView(careerData, seasonData).uploads = <<"Upload Next Season">>

----------------------------------------------------------------------------
(* SeasonTab: which rows become performances, their tiers and their order *)

\* the most quarterback rows of a drawn season
MaxRows == 3

\* passing yards at 0, on the average, good and legendary thresholds and just
\* below the good one
RowYards == {0, 1500, 2499, 2500, 4500}

\* the defensive rows of a drawn season, as tackles of the LB, DB and DL row
\* (0: no row of that position)
DefenceRows == {<<0, 0, 0>>, <<30, 100, 29>>, <<50, 50, 70>>}

PerfSeasonOf(q, rb, rec, d) ==
    [EmptyCareer EXCEPT
        !.quarterbacks = [i \in 1..Len(q) |->
            QBPlayer(PlayerNames[i], "Active", 16, q[i], 20, 500, 300, 10)],
        !.runningbacks = IF rb THEN <<RBPlayer(PlayerNames[1], "Active", 16, 1500, 300, 0)>> ELSE <<>>,
        !.widereceivers = IF rec THEN <<WRPlayer(PlayerNames[1], "WR", "Active", 16, 399, 2, 30),
                                        WRPlayer(PlayerNames[2], "WR", "Active", 16, 0, 0, 0)>>
                          ELSE <<>>,
        !.tightends = IF rec THEN <<WRPlayer(PlayerNames[1], "TE", "Active", 16, 300, 2, 30)>> ELSE <<>>,
        !.linebackers = IF d[1] > 0 THEN <<DefPlayer(PlayerNames[1], "LB", "Active", 16, d[1], 0, 0, 0)>>
                        ELSE <<>>,
        !.defensivebacks = IF d[2] > 0 THEN <<DefPlayer(PlayerNames[2], "DB", "Active", 16, d[2], 0, 0, 0)>>
                           ELSE <<>>,
        !.defensiveline = IF d[3] > 0 THEN <<DefPlayer(PlayerNames[3], "DL", "Active", 16, d[3], 0, 0, 0)>>
                          ELSE <<>>]

InitPerformances ==
    \E q \in SeqsUpTo(RowYards, MaxRows), rb \in BOOLEAN, rec \in BOOLEAN, d \in DefenceRows,
       k \in {0, 2} :
        /\ careerData = TabCareerOf(k, rb, FALSE, FALSE, TRUE)
        /\ seasonData = PerfSeasonOf(q, rb, rec, d)
        /\ history = <<>>
        /\ allTimeRecords = NotComputed
        /\ advancedMetrics = NotComputed
        /\ paceToRecords = NotComputed
        /\ singleSeasonRecords = NotComputed
        /\ greatestSeasons = NotComputed
        /\ call = Null
        /\ ret = Null
        /\ dataVersion = 0
        /\ memoDeps = NotComputed
        /\ recordsView = NotComputed
        /\ performances = NotComputed
        /\ commentary = NotComputed

NextPerformances == SeasonTabRender

\* SeasonTab rendered over a drawn season and career
SpecPerformances == InitPerformances /\ [][NextPerformances]_vars

\* the position group of a season row
RowGroup(row) ==
    CASE row.position = "QB" -> 1 [] row.position = "RB" -> 2 [] row.position = "WR" -> 3
      [] row.position = "TE" -> 4 [] row.position \in {"LB", "DB", "DL"} -> 5

\* the place of a row in its group's season collection
RowIndex(row) ==
    LET rows == GroupPlayers(seasonData, Groups[RowGroup(row)])
    IN  CHOOSE i \in 1..Len(rows) : rows[i] = row

TierRank(tier) ==
    CASE tier = "legendary" -> 0 [] tier = "great" -> 1 [] tier = "good" -> 2
      [] tier = "average" -> 3 [] tier = "poor" -> 4

\* C28: a season row yields a performance iff its primary stat (passYds for QB,
\* rushYds for RB, recYds for WR and TE, tackles for defence) is > 0; its tier
\* is the first of legendary, great, good, average whose threshold is <= the
\* primary stat (QB 4500/3500/2500/1500), else poor; inside a position group
\* the performances run legendary, great, good, average, poor with input order
\* kept inside a tier; the whole list is the groups' lists in the order QB, RB,
\* WR, TE, defence.
C28_SeasonTiering ==
    performances # NotComputed =>
        /\ \A g \in Elems(Groups) : \A row \in Elems(GroupPlayers(seasonData, g)) :
              row[PrimaryStat(g)] > 0 <=>
                  \E i \in 1..Len(Performances) : Performances[i].seasonStats = row
        /\ \A i, j \in 1..Len(Performances) :
              i # j => Performances[i].seasonStats # Performances[j].seasonStats
        /\ \A i \in 1..Len(Performances) :
              LET row  == Performances[i].seasonStats
                  g    == Groups[RowGroup(row)]
                  stat == row[PrimaryStat(g)]
                  t    == Thresholds(g)
                  tier == Performances[i].tier
              IN  /\ tier = "legendary" <=> stat >= t.legendary
                  /\ tier = "great" <=> (t.great <= stat /\ stat < t.legendary)
                  /\ tier = "good" <=> (t.good <= stat /\ stat < t.great)
                  /\ tier = "average" <=> (t.average <= stat /\ stat < t.good)
                  /\ tier = "poor" <=> stat < t.average
                  /\ g = "QB" =>
                        tier = IF stat >= 4500 THEN "legendary"
                               ELSE IF stat >= 3500 THEN "great"
                               ELSE IF stat >= 2500 THEN "good"
                               ELSE IF stat >= 1500 THEN "average"
                               ELSE "poor"
        /\ \A i, j \in 1..Len(Performances) :
              i < j =>
                  LET a == Performances[i]
                      b == Performances[j]
                  IN  /\ RowGroup(a.seasonStats) <= RowGroup(b.seasonStats)
                      /\ RowGroup(a.seasonStats) = RowGroup(b.seasonStats) =>
                            /\ TierRank(a.tier) <= TierRank(b.tier)
                            /\ a.tier = b.tier => RowIndex(a.seasonStats) < RowIndex(b.seasonStats)

\* three quarterbacks at 2500, 4500 and 2500 yards come out as the second, the
\* first and the third, each on a threshold; the running back's legendary
\* season follows the two good quarterback seasons; the receiver without yards
\* is left out
C28_Witness ==
    /\ performances # NotComputed
    /\ Len(seasonData.quarterbacks) = 3
    /\ Len(seasonData.widereceivers) = 2
    /\ Len(Performances) >= 6
    /\ Performances[1].seasonStats = seasonData.quarterbacks[2] /\ Performances[1].tier = "legendary"
    /\ Performances[2].seasonStats = seasonData.quarterbacks[1] /\ Performances[2].tier = "good"
    /\ Performances[3].seasonStats = seasonData.quarterbacks[3] /\ Performances[3].tier = "good"
    /\ Performances[4].seasonStats = seasonData.runningbacks[1] /\ Performances[4].tier = "legendary"
    /\ Performances[5].seasonStats = seasonData.widereceivers[1] /\ Performances[5].tier = "poor"
    /\ Performances[6].seasonStats = seasonData.tightends[1] /\ Performances[6].tier = "average"

----------------------------------------------------------------------------
(* CommentaryTab: which season stories are told, and in which order *)

\* the quarterback rows of a drawn season, as passing yards
StoryQuarterbacks == {<<>>, <<0>>, <<3000>>, <<0, 3000>>, <<4600, 3000>>}

\* the positions whose season rows carry a ring
StoryRings == {{}, {"LB"}, {"QB", "LB"}}

Award(position, holders) == IF position \in holders THEN 1 ELSE 0

\* a season of quarterbacks q, a running back and a receiver (absent when the
\* yards are negative) and a linebacker; rows of the positions in mvps carry
\* an MVP award, those in rings a ring
StorySeasonOf(q, r, w, mvps, rings) ==
    [EmptyCareer EXCEPT
        !.quarterbacks = [i \in 1..Len(q) |->
            [QBPlayer(PlayerNames[i], "Active", 16, q[i], 20, 500, 300, 10)
                EXCEPT !.mvp = Award("QB", mvps), !.rings = Award("QB", rings)]],
        !.runningbacks = IF r < 0 THEN <<>>
                         ELSE <<[RBPlayer(PlayerNames[3], "Active", 16, r, 250, 100)
                                    EXCEPT !.mvp = Award("RB", mvps)]>>,
        !.widereceivers = IF w < 0 THEN <<>>
                          ELSE <<[WRPlayer(PlayerNames[4], "WR", "Active", 16, w, 5, 60)
                                     EXCEPT !.mvp = Award("WR", mvps)]>>,
        !.linebackers = <<[DefPlayer(PlayerNames[5], "LB", "Active", 16, 80, 4, 1, 1)
                              EXCEPT !.mvp = Award("LB", mvps), !.rings = Award("LB", rings)]>>]

InitStories ==
    /\ careerData \in {TabCareerOf(0, FALSE, FALSE, FALSE, FALSE), TabCareerOf(2, TRUE, TRUE, TRUE, FALSE)}
    /\ \/ seasonData = Null
       \/ \E q \in StoryQuarterbacks, r \in {-1, 0, 1200}, w \in {-1, 0, 1400},
             mvps \in SUBSET {"QB", "RB", "WR", "LB"}, rings \in StoryRings :
              seasonData = StorySeasonOf(q, r, w, mvps, rings)
    /\ history = <<>>
    /\ allTimeRecords = NotComputed
    /\ advancedMetrics = NotComputed
    /\ paceToRecords = NotComputed
    /\ singleSeasonRecords = NotComputed
    /\ greatestSeasons = NotComputed
    /\ call = Null
    /\ ret = Null
    /\ dataVersion = 0
    /\ memoDeps = NotComputed
    /\ recordsView = NotComputed
    /\ performances = NotComputed
    /\ commentary = NotComputed

NextStories == CommentaryTabRender

\* CommentaryTab rendered over a drawn season and career
SpecStories == InitStories /\ [][NextStories]_vars

\* the place of a story in the order MVP, championship, passing, rushing,
\* receiving
StoryRank(story) ==
    CASE story.headline[1] = "Wins MVP"           -> 1
      [] story.headline[1] = "Championship Glory" -> 2
      [] story.headline[1] = "passYds"            -> 3
      [] story.headline[1] = "rushYds"            -> 4
      [] story.headline[1] = "recYds"             -> 5

\* the season rows with an MVP award, in collection order
SeasonMVPs == LET all == allPlayersOf(seasonData)
              IN  FilterIdx(all, {i \in 1..Len(all) : all[i].mvp > 0}, 1)

\* C29: the story list has at most five entries, in the order MVP story,
\* "Championship Glory", passing story, rushing story, receiving story; at most
\* one MVP story is told, about the first season player in collection order
\* with mvp > 0; a positional story is told only when the position's season
\* collection is non-empty and its leader's stat is > 0; without seasonData no
\* story is told.
C29_StoryOrder ==
    (commentary \notin {NotComputed, Null}) =>
        /\ commentary # Threw
        /\ Len(Stories) <= 5
        /\ \A i, j \in 1..Len(Stories) : i < j => StoryRank(Stories[i]) < StoryRank(Stories[j])
        /\ seasonData = Null => Stories = <<>>
        /\ seasonData # Null =>
              /\ HasStory("Wins MVP") <=> Len(SeasonMVPs) > 0
              /\ HasStory("Wins MVP") =>
                    /\ Stories[1].headline = <<"Wins MVP", SeasonMVPs[1].name>>
                    /\ \A i \in 2..Len(Stories) : Stories[i].headline[1] # "Wins MVP"
              /\ \A k \in Elems(StoryKinds) :
                    HasStory(k.stat) =>
                        /\ Len(seasonData[k.array]) > 0
                        /\ \E row \in Elems(seasonData[k.array]) :
                              /\ row[k.stat] > 0
                              /\ \A other \in Elems(seasonData[k.array]) : other[k.stat] <= row[k.stat]

\* a quarterback, a running back and a linebacker all hold an MVP award and two
\* rows a ring: five stories, the MVP story naming the first quarterback
C29_Witness ==
    /\ commentary \notin {NotComputed, Null}
    /\ seasonData # Null
    /\ Len(SeasonMVPs) >= 3
    /\ Len(Stories) = 5
    /\ Stories[1].headline = <<"Wins MVP", PlayerNames[1]>>
    /\ Stories[2].headline[1] = "Championship Glory"
    /\ Stories[3].headline[1] = "passYds"
    /\ Stories[4].headline[1] = "rushYds"
    /\ Stories[5].headline[1] = "recYds"

----------------------------------------------------------------------------
(* Who is named when several players share a record *)

\* the most players of the drawn category
MaxTied == 3

\* totals of 700 held by active and retired players, a lower total, none
TieStats ==
    {[status |-> "Active", games |-> 16, yds |-> 300],
     [status |-> "Active", games |-> 16, yds |-> 700],
     [status |-> "Retired", games |-> 16, yds |-> 700],
     [status |-> "Retired", games |-> 16, yds |-> 0]}

InitTies ==
    \E focus \in {"QB", "RB", "WR"}, x \in SeqsUpTo(TieStats, MaxTied) :
        Mounted(FocusedCareer(focus, x, <<>>, <<>>), <<>>)

NextTies == RecordsTabRender \/ RecordsViewRender

\* both records views rendered over a category in which totals are shared
SpecTies == InitTies /\ [][NextTies]_vars

SectionCategories(section) ==
    CASE section = "qbRecords" -> QBCategories [] section = "rbRecords" -> RBCategories
      [] section = "wrRecords" -> WRCategories [] section = "teRecords" -> TECategories
      [] section = "defRecords" -> DefCategories [] section = "accoladeRecords" -> AccoladeCategories

\* the places of the players holding the largest value of field f
TopPlaces(players, f) ==
    {i \in 1..Len(players) : \A j \in 1..Len(players) : players[j][f] <= players[i][f]}

FirstOf(places) == CHOOSE i \in places : \A j \in places : i <= j
LastOf(places)  == CHOOSE i \in places : \A j \in places : i >= j

\* C30: findMax returns the largest value of the collection and, when several
\* players share it, names the last of them in collection order; the pace
\* projector's record holder is the first player in collection order whose
\* total equals the largest.
C30_TieChoice ==
    /\ (recordsView \notin {NotComputed, Null}) =>
          /\ recordsView # Threw
          /\ \A section \in Sections :
                LET ps   == SectionPlayers(careerData, section)
                    cats == SectionCategories(section)
                IN  Len(ps) > 0 =>
                        /\ Len(ViewSection(section)) = Len(cats)
                        /\ \A i \in 1..Len(cats) :
                              LET e == ViewSection(section)[i]
                                  f == cats[i][1]
                              IN  /\ e.stat = cats[i][2]
                                  /\ e.value = ps[LastOf(TopPlaces(ps, f))][f]
                                  /\ e.playerName = ps[LastOf(TopPlaces(ps, f))].name
    /\ (Rendered /\ careerData # Null) =>
          \A i \in 1..Len(paceToRecords) :
              LET e  == paceToRecords[i]
                  ps == CategoryPlayers(e.position)
                  top == {k \in 1..Len(ps) : \A j \in 1..Len(ps) :
                             CategoryTotal(e.position, ps[j]) <= CategoryTotal(e.position, ps[k])}
              IN  /\ e.recordValue = CategoryTotal(e.position, ps[FirstOf(top)])
                  /\ e.recordHolder = ps[FirstOf(top)].name

\* two players share 700 ahead of an active player at 300: the simple view
\* names the second of them, the pace record of the third player the first
C30_Witness ==
    /\ Rendered
    /\ careerData # Null
    /\ recordsView \notin {NotComputed, Null}
    /\ Len(careerData.quarterbacks) = 3
    /\ careerData.quarterbacks[1].passYds = 700
    /\ careerData.quarterbacks[2].passYds = 700
    /\ recordsView.qbRecords[1].stat = "Career Passing Yards"
    /\ recordsView.qbRecords[1].value = 700
    /\ recordsView.qbRecords[1].playerName = careerData.quarterbacks[2].name
    /\ Len(paceToRecords) = 1
    /\ paceToRecords[1].playerName = careerData.quarterbacks[3].name
    /\ paceToRecords[1].recordHolder = careerData.quarterbacks[1].name

====
